---- MODULE Spec2Model ----
(***************************************************************************)
(* Model of the meeting-minutes text-to-task pipeline:                     *)
(*   - parseTasksFromConversation (server/src/utils/nlpParser.ts): the     *)
(*     response normalizer and the task field resolver, as operators over  *)
(*     a tagged JSON value type and character-sequence strings;            *)
(*   - createTask (task controller): the retry loop around the extraction, *)
(*     the remote completion call raced against its timer, the backoff     *)
(*     sleeps and the persistence loop, as a state machine.                *)
(***************************************************************************)
EXTENDS Integers, Sequences, FiniteSets, TLC

(***************************************************************************)
(* Strings are sequences of one-character strings.                         *)
(***************************************************************************)
LowerSeq == <<"a","b","c","d","e","f","g","h","i","j","k","l","m",
              "n","o","p","q","r","s","t","u","v","w","x","y","z">>
UpperSeq == <<"A","B","C","D","E","F","G","H","I","J","K","L","M",
              "N","O","P","Q","R","S","T","U","V","W","X","Y","Z">>
DigitSeq == <<"0","1","2","3","4","5","6","7","8","9">>

Range(s) == {s[i] : i \in DOMAIN s}

IsLower(c) == c \in Range(LowerSeq)
IsUpper(c) == c \in Range(UpperSeq)
IsLetter(c) == IsLower(c) \/ IsUpper(c)
\* \d of the JavaScript regular expressions
IsDigit(c) == c \in Range(DigitSeq)
\* \s of the JavaScript regular expressions, and what String.prototype.trim removes
IsSpace(c) == c \in {" ", "\n"}

\* String.prototype.toUpperCase, character by character
UpperChar(c) ==
  IF IsLower(c) THEN UpperSeq[CHOOSE i \in DOMAIN LowerSeq : LowerSeq[i] = c] ELSE c
toUpperCase(s) == [i \in DOMAIN s |-> UpperChar(s[i])]

\* String.prototype.substring(from) and substring(0, n), 0-based as in the source
substringFrom(s, from) == IF from >= Len(s) THEN <<>> ELSE SubSeq(s, from + 1, Len(s))
substringTo(s, n) == IF n >= Len(s) THEN s ELSE SubSeq(s, 1, n)

\* number of leading characters of s that satisfy the class test
RECURSIVE LeadingSpaces(_)
LeadingSpaces(s) ==
  IF s = <<>> \/ ~IsSpace(Head(s)) THEN 0 ELSE 1 + LeadingSpaces(Tail(s))
RECURSIVE LeadingDigits(_)
LeadingDigits(s) ==
  IF s = <<>> \/ ~IsDigit(Head(s)) THEN 0 ELSE 1 + LeadingDigits(Tail(s))
RECURSIVE LeadingLetters(_)
LeadingLetters(s) ==
  IF s = <<>> \/ ~IsLetter(Head(s)) THEN 0 ELSE 1 + LeadingLetters(Tail(s))
RECURSIVE TrailingSpaces(_)
TrailingSpaces(s) ==
  IF s = <<>> \/ ~IsSpace(s[Len(s)]) THEN 0
  ELSE 1 + TrailingSpaces(SubSeq(s, 1, Len(s) - 1))

\* String.prototype.trim
trim(s) ==
  LET a == LeadingSpaces(s)
  IN  IF a = Len(s) THEN <<>> ELSE SubSeq(s, a + 1, Len(s) - TrailingSpaces(s))

\* Number.prototype.toString for the non-negative integers of the model
RECURSIVE NumStr(_)
NumStr(n) ==
  IF n < 10 THEN <<DigitSeq[n + 1]>> ELSE NumStr(n \div 10) \o <<DigitSeq[(n % 10) + 1]>>

(***************************************************************************)
(* JSON values, as JSON.parse returns them.  Every value is a record of    *)
(* the same shape, tagged by t; an object is the sequence of its           *)
(* properties in insertion order, with distinct keys.                      *)
(***************************************************************************)
JV(t, b, n, s, a, o) == [t |-> t, b |-> b, n |-> n, s |-> s, a |-> a, o |-> o]
Undefined == JV("undefined", FALSE, 0, <<>>, <<>>, <<>>)
JNull     == JV("null", FALSE, 0, <<>>, <<>>, <<>>)
JBool(b)  == JV("boolean", b, 0, <<>>, <<>>, <<>>)
JNum(n)   == JV("number", FALSE, n, <<>>, <<>>, <<>>)
JStr(s)   == JV("string", FALSE, 0, s, <<>>, <<>>)
JArr(a)   == JV("array", FALSE, 0, <<>>, a, <<>>)
JObj(o)   == JV("object", FALSE, 0, <<>>, <<>>, o)
Prop(k, v) == [k |-> k, v |-> v]

\* ToBoolean: what `if (x)`, `!x` and `a && b` test
Truthy(v) ==
  CASE v.t = "undefined" -> FALSE
    [] v.t = "null"      -> FALSE
    [] v.t = "boolean"   -> v.b
    [] v.t = "number"    -> v.n # 0
    [] v.t = "string"    -> v.s # <<>>
    [] OTHER             -> TRUE

\* the typeof operator
TypeOf(v) ==
  CASE v.t \in {"null", "array", "object"} -> "object"
    [] OTHER -> v.t

isArray(v) == v.t = "array"

\* v[k] for the property names the source reads (none of them is a property
\* of a string, a number, a boolean or an array)
RECURSIVE Lookup(_, _)
Lookup(o, k) ==
  IF o = <<>> THEN Undefined
  ELSE IF Head(o).k = k THEN Head(o).v ELSE Lookup(Tail(o), k)
Get(v, k) == IF v.t = "object" THEN Lookup(v.o, k) ELSE Undefined

\* Object.values
ObjectValues(v) == [i \in DOMAIN v.o |-> v.o[i].v]

\* Array.prototype.filter, with the two tests the source filters by
RECURSIVE FilterArrays(_)
FilterArrays(vs) ==
  IF vs = <<>> THEN <<>>
  ELSE (IF isArray(Head(vs)) THEN <<Head(vs)>> ELSE <<>>) \o FilterArrays(Tail(vs))
IsObjectValue(v) == Truthy(v) /\ TypeOf(v) = "object"
RECURSIVE FilterObjects(_)
FilterObjects(vs) ==
  IF vs = <<>> THEN <<>>
  ELSE (IF IsObjectValue(Head(vs)) THEN <<Head(vs)>> ELSE <<>>) \o FilterObjects(Tail(vs))

\* Array.prototype.flat() of an array of arrays: one level
RECURSIVE Flat(_)
Flat(arrs) == IF arrs = <<>> THEN <<>> ELSE Head(arrs).a \o Flat(Tail(arrs))

\* String(v) throws a TypeError when v is an object whose own property
\* "toString" (from the JSON text) hides Object.prototype.toString, or an
\* array that holds such an object
RECURSIVE StringThrows(_)
StringThrows(v) ==
  CASE v.t = "object" -> Get(v, "toString").t # "undefined"
    [] v.t = "array"  -> \E i \in DOMAIN v.a : StringThrows(v.a[i])
    [] OTHER          -> FALSE

\* String(v), where it does not throw
RECURSIVE String(_)
RECURSIVE Join(_)
Join(a) ==
  IF a = <<>> THEN <<>>
  ELSE (IF Head(a).t \in {"null", "undefined"} THEN <<>> ELSE String(Head(a)))
       \o (IF Len(a) > 1 THEN <<",">> \o Join(Tail(a)) ELSE <<>>)
String(v) ==
  CASE v.t = "undefined" -> <<"u","n","d","e","f","i","n","e","d">>
    [] v.t = "null"      -> <<"n","u","l","l">>
    [] v.t = "boolean"   -> IF v.b THEN <<"t","r","u","e">> ELSE <<"f","a","l","s","e">>
    [] v.t = "number"    -> NumStr(v.n)
    [] v.t = "string"    -> v.s
    [] v.t = "array"     -> Join(v.a)
    [] OTHER             -> <<"[","o","b","j","e","c","t"," ","O","b","j","e","c","t","]">>

(***************************************************************************)
(* Response normalizer: the candidate sequence of a parsed response        *)
(* (nlpParser.ts, "Handle different response formats").                    *)
(***************************************************************************)
\* two variants of the cascade: one that takes the first array-valued
\* property alone, one without the `result.description` branch
ExtractTasksFirstArray(result) ==
  IF isArray(result) THEN result.a
  ELSE IF Truthy(result) /\ isArray(Get(result, "tasks")) THEN Get(result, "tasks").a
  ELSE IF Truthy(result) /\ Truthy(Get(result, "description")) THEN <<result>>
  ELSE IF TypeOf(result) = "object" /\ result.t # "null" THEN
    LET arrayProps == FilterArrays(ObjectValues(result))
        objectProps == FilterObjects(ObjectValues(result))
    IN  IF Len(arrayProps) > 0 THEN Head(arrayProps).a
        ELSE IF Len(objectProps) = 0 THEN <<result>> ELSE objectProps
  ELSE <<>>
ExtractTasksNoDescriptionBranch(result) ==
  IF isArray(result) THEN result.a
  ELSE IF Truthy(result) /\ isArray(Get(result, "tasks")) THEN Get(result, "tasks").a
  ELSE IF TypeOf(result) = "object" /\ result.t # "null" THEN
    LET arrayProps == FilterArrays(ObjectValues(result))
        objectProps == FilterObjects(ObjectValues(result))
    IN  IF Len(arrayProps) > 0 THEN Flat(arrayProps)
        ELSE IF Len(objectProps) = 0 THEN <<result>> ELSE objectProps
  ELSE <<>>
ExtractTasks(result) ==
  IF isArray(result) THEN result.a
  ELSE IF Truthy(result) /\ isArray(Get(result, "tasks")) THEN Get(result, "tasks").a
  ELSE IF Truthy(result) /\ Truthy(Get(result, "description")) THEN <<result>>
  ELSE IF TypeOf(result) = "object" /\ result.t # "null" THEN
    LET arrayProps == FilterArrays(ObjectValues(result))
        objectProps == FilterObjects(ObjectValues(result))
    IN  IF Len(arrayProps) > 0 THEN Flat(arrayProps)
        ELSE IF Len(objectProps) = 0 THEN <<result>> ELSE objectProps
  ELSE <<>>

(***************************************************************************)
(* Task field resolver: one candidate of the sequence (nlpParser.ts, the   *)
(* body of `for (const task of tasks)`).                                   *)
(***************************************************************************)
\* a string as a tuple, whatever operators built it
Str(s) == IF s = <<>> THEN <<>> ELSE [i \in 1..Len(s) |-> s[i]]

\* taskObj without the unwrapping of a `task` property
TaskObjKeepWrapper(task) ==
  IF TypeOf(task) = "string" THEN JObj(<<Prop("description", task)>>) ELSE task
\* taskObj after the string wrapping and the unwrapping of a `task` property
TaskObj(task) ==
  LET wrapped == IF TypeOf(task) = "string"
                 THEN JObj(<<Prop("description", task)>>) ELSE task
  IN  IF Truthy(wrapped) /\ TypeOf(wrapped) = "object" /\ Truthy(Get(wrapped, "task"))
      THEN Get(wrapped, "task") ELSE wrapped

possibleDescriptionFields == <<"task", "action", "item", "todo", "description">>

\* the value of the first field that holds a non-empty string
RECURSIVE FirstStringField(_, _)
FirstStringField(taskObj, fields) ==
  IF fields = <<>> THEN Undefined
  ELSE LET v == Get(taskObj, Head(fields))
       IN  IF Truthy(v) /\ TypeOf(v) = "string" THEN v
           ELSE FirstStringField(taskObj, Tail(fields))

\* taskObj.description after the search for a description field
DescriptionValue(taskObj) ==
  IF Truthy(Get(taskObj, "description")) THEN Get(taskObj, "description")
  ELSE FirstStringField(taskObj, possibleDescriptionFields)

\* a removal that leaves the whitespace after the numbering
removeNumberingKeepSpaces(description) ==
  LET d == LeadingDigits(description)
  IN  IF d >= 1 /\ Len(description) > d /\ description[d + 1] \in {".", ")"}
      THEN substringFrom(description, d + 1)
      ELSE description
\* description.replace(/^\d+[.)]\s*/, '')
removeNumbering(description) ==
  LET d == LeadingDigits(description)
  IN  IF d >= 1 /\ Len(description) > d /\ description[d + 1] \in {".", ")"}
      THEN LET rest == substringFrom(description, d + 1)
           IN  substringFrom(rest, LeadingSpaces(rest))
      ELSE description

\* a resolver that falls back to the default assignee of the Task schema
AssigneeFieldUnassigned(taskObj) ==
  LET a == Get(taskObj, "assignee")
  IN  IF Truthy(a) /\ TypeOf(a) = "string" THEN [throws |-> FALSE, s |-> trim(a.s)]
      ELSE [throws |-> FALSE, s |-> <<"U","n","a","s","s","i","g","n","e","d">>]
\* the assignee taken from the fields of the task object; `throws` when a
\* String() conversion on the way throws
AssigneeField(taskObj) ==
  LET a == Get(taskObj, "assignee")
      at == Get(taskObj, "assignedTo")
      ow == Get(taskObj, "owner")
  IN  IF Truthy(a) /\ TypeOf(a) = "string" THEN [throws |-> FALSE, s |-> trim(a.s)]
      ELSE IF Truthy(at) THEN
        IF StringThrows(at) THEN [throws |-> TRUE, s |-> <<>>]
        ELSE [throws |-> FALSE, s |-> trim(String(at))]
      ELSE IF Truthy(ow) THEN
        IF StringThrows(ow) THEN [throws |-> TRUE, s |-> <<>>]
        ELSE [throws |-> FALSE, s |-> trim(String(ow))]
      ELSE [throws |-> FALSE, s |-> <<>>]

\* description.match(...) against the assignee expression of the source: at
\* the start of the string, a name of one or more words [A-Z][a-z]+ separated
\* by \s+, then \s+to\s+ or \s+will\s+.  The i flag covers the whole
\* expression, so a word of the name is any run of two or more letters.
\* MatchAfter(s, e) continues a match whose name ends after e characters:
\* the repetition of name words is greedy, so a further word is tried before
\* the connector.  The result is the end of the name (group 1) and the
\* length of the whole match (group 0), or NoMatch.
NoMatch == [ok |-> FALSE, nameEnd |-> 0, len |-> 0]
IsConnector(w) == toUpperCase(w) \in {<<"T","O">>, <<"W","I","L","L">>}
RECURSIVE MatchAfter(_, _)
MatchAfter(s, e) ==
  LET sp == LeadingSpaces(substringFrom(s, e))
      q == e + sp
      l == LeadingLetters(substringFrom(s, q))
      more == IF sp >= 1 /\ l >= 2 THEN MatchAfter(s, q + l) ELSE NoMatch
      after == LeadingSpaces(substringFrom(s, q + l))
  IN  IF sp = 0 THEN NoMatch
      ELSE IF more.ok THEN more
      ELSE IF l >= 2 /\ IsConnector(SubSeq(s, q + 1, q + l)) /\ after >= 1
           THEN [ok |-> TRUE, nameEnd |-> e, len |-> q + l + after]
      ELSE NoMatch
assigneeMatch(description) ==
  LET l == LeadingLetters(description)
  IN  IF l >= 2 THEN MatchAfter(description, l) ELSE NoMatch

\* new Date(v) followed by toISOString(), for the truthy values v of the
\* model: a number below 1000 is that many milliseconds after the epoch, true
\* is one millisecond after it; a string yyyy-MM-dd with a month in 01..12
\* and a day in 01..28 is midnight UTC of that day; the other strings of the
\* model (words, out-of-range dates, "[object Object]") are invalid dates.
IsoDateOnly(s) ==
  /\ Len(s) = 10
  /\ \A i \in {1, 2, 3, 4, 6, 7, 9, 10} : IsDigit(s[i])
  /\ s[5] = "-" /\ s[8] = "-"
  /\ SubSeq(s, 6, 7) \in {<<"0", DigitSeq[i]>> : i \in 2..10} \cup
                         {<<"1","0">>, <<"1","1">>, <<"1","2">>}
  /\ \/ s[9] = "0" /\ s[10] # "0"
     \/ s[9] = "1"
     \/ s[9] = "2" /\ s[10] # "9"
Pad3(n) == (IF n < 10 THEN <<"0","0">> ELSE IF n < 100 THEN <<"0">> ELSE <<>>) \o NumStr(n)
NewDate(v) ==
  LET s == IF v.t = "number" THEN <<>> ELSE String(v)
  IN  CASE v.t = "number" /\ v.n < 1000 ->
             [valid |-> TRUE,
              iso |-> Str(<<"1","9","7","0","-","0","1","-","0","1","T",
                        "0","0",":","0","0",":","0","0",".">> \o Pad3(v.n) \o <<"Z">>)]
        [] v.t = "boolean" ->
             [valid |-> TRUE,
              iso |-> <<"1","9","7","0","-","0","1","-","0","1","T",
                        "0","0",":","0","0",":","0","0",".","0","0","1","Z">>]
        [] v.t # "number" /\ v.t # "boolean" /\ IsoDateOnly(s) ->
             [valid |-> TRUE,
              iso |-> Str(s \o <<"T","0","0",":","0","0",":","0","0",".","0","0","0","Z">>)]
        [] OTHER -> [valid |-> FALSE, iso |-> <<>>]

dueDateFields == <<"dueDate", "due_date", "due", "date", "deadline">>
\* a loop that stops at the first field present, valid date or not
DueDateFirstField(taskObj, fields) ==
  LET present == SelectSeq(fields, LAMBDA f : Truthy(Get(taskObj, f)))
      v == Get(taskObj, Head(present))
  IN  IF present = <<>> THEN <<>>
      ELSE IF ~StringThrows(v) /\ NewDate(v).valid THEN NewDate(v).iso
      ELSE <<>>
RECURSIVE DueDate(_, _)
DueDate(taskObj, fields) ==
  IF fields = <<>> THEN <<>>
  ELSE LET v == Get(taskObj, Head(fields))
       IN  IF Truthy(v) /\ ~StringThrows(v) /\ NewDate(v).valid THEN NewDate(v).iso
           ELSE DueDate(taskObj, Tail(fields))

priorityFields == <<"priority", "importance", "severity">>
P1 == <<"P", "1">>
P2 == <<"P", "2">>
P3 == <<"P", "3">>
P4 == <<"P", "4">>
HIGH == <<"H","I","G","H">>
MEDIUM == <<"M","E","D","I","U","M">>
LOW == <<"L","O","W">>
URGENT == <<"U","R","G","E","N","T">>
IMPORTANT == <<"I","M","P","O","R","T","A","N","T">>
NORMAL == <<"N","O","R","M","A","L">>
\* a loop that stops at the first field present, recognized or not
PriorityFirstField(taskObj, fields) ==
  IF fields = <<>> THEN [throws |-> FALSE, p |-> P3]
  ELSE LET present == SelectSeq(fields, LAMBDA f : Truthy(Get(taskObj, f)))
           v == Get(taskObj, Head(present))
           p == toUpperCase(String(v))
       IN  IF present = <<>> THEN [throws |-> FALSE, p |-> P3]
           ELSE IF StringThrows(v) THEN [throws |-> TRUE, p |-> P3]
           ELSE IF p \in {P1, P2, P3, P4} THEN [throws |-> FALSE, p |-> p]
           ELSE IF p \in {HIGH, URGENT} THEN [throws |-> FALSE, p |-> P1]
           ELSE IF p \in {MEDIUM, IMPORTANT} THEN [throws |-> FALSE, p |-> P2]
           ELSE IF p = LOW THEN [throws |-> FALSE, p |-> P4]
           ELSE [throws |-> FALSE, p |-> P3]
RECURSIVE Priority(_, _)
Priority(taskObj, fields) ==
  IF fields = <<>> THEN [throws |-> FALSE, p |-> P3]
  ELSE LET v == Get(taskObj, Head(fields))
           p == toUpperCase(String(v))
       IN  IF ~Truthy(v) THEN Priority(taskObj, Tail(fields))
           ELSE IF StringThrows(v) THEN [throws |-> TRUE, p |-> P3]
           ELSE IF p # <<>> /\ p[1] = "P" /\ p \in {P1, P2, P3, P4}
                THEN [throws |-> FALSE, p |-> p]
           ELSE IF p \in {HIGH, MEDIUM, LOW}
                THEN [throws |-> FALSE,
                      p |-> IF p = HIGH THEN P1 ELSE IF p = MEDIUM THEN P2 ELSE P4]
           ELSE IF p \in {URGENT, IMPORTANT, NORMAL, LOW}
                THEN [throws |-> FALSE,
                      p |-> IF p = URGENT THEN P1 ELSE IF p = IMPORTANT THEN P2
                            ELSE IF p = NORMAL THEN P3 ELSE P4]
           ELSE Priority(taskObj, Tail(fields))

\* if (description.length > 500) description = description.substring(0, 497) + '...'
MaxDescription == 500
KeptDescription == 497
\* a clamp that keeps the first 500 characters before the marker
clampDescriptionKeepAll(description) ==
  IF Len(description) > MaxDescription
  THEN substringTo(description, MaxDescription) \o <<".", ".", ".">>
  ELSE description
clampDescription(description) ==
  IF Len(description) > MaxDescription
  THEN substringTo(description, KeptDescription) \o <<".", ".", ".">>
  ELSE description

ParsedTask(description, assignee, dueDate, priority) ==
  [description |-> description, assignee |-> assignee,
   dueDate |-> dueDate, priority |-> priority]
NoTask == ParsedTask(<<>>, <<>>, <<>>, <<>>)

\* One iteration of the loop over the candidates: "skip" is a `continue`,
\* "throw" an exception caught by the catch of the iteration, "push" a
\* processedTasks.push of the task.  taskObj and cleaned (the description
\* after trim and the removal of the numbering) are the locals of the
\* iteration.
Iteration(kind, task, trimmed, cleaned) ==
  [kind |-> kind, task |-> task, trimmed |-> trimmed, cleaned |-> cleaned]
ProcessTask(task) ==
  LET taskObj == TaskObj(task)
      dv == DescriptionValue(taskObj)
      trimmed == trim(String(dv))
      cleaned == removeNumbering(trimmed)
      af == AssigneeField(taskObj)
      m == IF af.s = <<>> THEN assigneeMatch(cleaned) ELSE NoMatch
      assignee == IF m.ok THEN trim(SubSeq(cleaned, 1, m.nameEnd)) ELSE af.s
      description == IF m.ok THEN trim(substringFrom(cleaned, m.len)) ELSE cleaned
      pr == Priority(taskObj, priorityFields)
  IN  IF ~Truthy(task) THEN Iteration("skip", NoTask, <<>>, <<>>)
      ELSE IF ~Truthy(dv) THEN Iteration("skip", NoTask, <<>>, <<>>)
      ELSE IF StringThrows(dv) THEN Iteration("throw", NoTask, <<>>, <<>>)
      ELSE IF af.throws \/ pr.throws
           THEN Iteration("throw", NoTask, Str(trimmed), Str(cleaned))
      ELSE Iteration("push",
                     ParsedTask(Str(clampDescription(description)), Str(assignee),
                                DueDate(taskObj, dueDateFields), Str(pr.p)),
                     Str(trimmed), Str(cleaned))

\* a loop over the candidates that an exception in one iteration ends
RECURSIVE ProcessTasksAbortOnThrow(_)
ProcessTasksAbortOnThrow(tasks) ==
  IF tasks = <<>> THEN <<>>
  ELSE LET r == ProcessTask(Head(tasks))
       IN  IF r.kind = "throw" THEN <<>>
           ELSE (IF r.kind = "push" THEN <<r.task>> ELSE <<>>)
                \o ProcessTasksAbortOnThrow(Tail(tasks))
\* processedTasks after the loop over the candidates
RECURSIVE ProcessTasks(_)
ProcessTasks(tasks) ==
  IF tasks = <<>> THEN <<>>
  ELSE LET r == ProcessTask(Head(tasks))
       IN  (IF r.kind = "push" THEN <<r.task>> ELSE <<>>) \o ProcessTasks(Tail(tasks))

(***************************************************************************)
(* The response text and JSON.parse.  The text is a sequence of tokens:    *)
(* the six punctuators, "key" (a quoted property name), "value" (a scalar  *)
(* literal: string, number, true, false, null) and "text" (anything that   *)
(* is no JSON token, as in a prose answer).                                *)
(***************************************************************************)
Tok(p) == [p |-> p, k |-> "", v |-> Undefined]
KeyTok(k) == [p |-> "key", k |-> k, v |-> Undefined]
ValTok(v) == [p |-> "value", k |-> "", v |-> v]

\* defining a property twice keeps its first position and its last value
RECURSIVE SetProp(_, _, _)
SetProp(o, k, v) ==
  IF o = <<>> THEN <<Prop(k, v)>>
  ELSE IF Head(o).k = k THEN <<Prop(k, v)>> \o Tail(o)
  ELSE <<Head(o)>> \o SetProp(Tail(o), k, v)

SyntaxError == [ok |-> FALSE, v |-> Undefined, next |-> 0]
Parsed(v, next) == [ok |-> TRUE, v |-> v, next |-> next]
RECURSIVE ParseValue(_, _)
RECURSIVE ParseElements(_, _, _)
RECURSIVE ParseMembers(_, _, _)
ParseValue(t, i) ==
  IF i > Len(t) THEN SyntaxError
  ELSE CASE t[i].p = "value" -> Parsed(t[i].v, i + 1)
         [] t[i].p = "[" ->
              IF i + 1 <= Len(t) /\ t[i + 1].p = "]" THEN Parsed(JArr(<<>>), i + 2)
              ELSE ParseElements(t, i + 1, <<>>)
         [] t[i].p = "{" ->
              IF i + 1 <= Len(t) /\ t[i + 1].p = "}" THEN Parsed(JObj(<<>>), i + 2)
              ELSE ParseMembers(t, i + 1, <<>>)
         [] OTHER -> SyntaxError
ParseElements(t, i, acc) ==
  LET r == ParseValue(t, i)
  IN  IF ~r.ok \/ r.next > Len(t) THEN SyntaxError
      ELSE IF t[r.next].p = "," THEN ParseElements(t, r.next + 1, Append(acc, r.v))
      ELSE IF t[r.next].p = "]" THEN Parsed(JArr(Append(acc, r.v)), r.next + 1)
      ELSE SyntaxError
ParseMembers(t, i, acc) ==
  IF i + 1 > Len(t) \/ t[i].p # "key" \/ t[i + 1].p # ":" THEN SyntaxError
  ELSE LET r == ParseValue(t, i + 2)
       IN  IF ~r.ok \/ r.next > Len(t) THEN SyntaxError
           ELSE IF t[r.next].p = ","
                THEN ParseMembers(t, r.next + 1, SetProp(acc, t[i].k, r.v))
           ELSE IF t[r.next].p = "}"
                THEN Parsed(JObj(SetProp(acc, t[i].k, r.v)), r.next + 1)
           ELSE SyntaxError

\* JSON.parse(content): the value, or ok = FALSE for a SyntaxError
JSONparse(content) ==
  LET r == ParseValue(content, 1)
  IN  IF r.ok /\ r.next = Len(content) + 1 THEN r ELSE SyntaxError

(***************************************************************************)
(* parseTasksFromConversation after the race has settled.  An error        *)
(* message is the sequence of the pieces it is concatenated from.          *)
(***************************************************************************)
Thrown(message) == [ok |-> FALSE, tasks |-> <<>>, message |-> message]
Returned(tasks) == [ok |-> TRUE, tasks |-> tasks, message |-> <<>>]

\* the catch around the whole function body
WrapError(message) == <<"Failed to parse tasks from conversation: ">> \o message

\* a completion: its number of choices and the content of the first one
\* (hasContent = FALSE: null or no content field)
Completion(choices, hasContent, content) ==
  [choices |-> choices, hasContent |-> hasContent, content |-> content]

\* the same steps without the throw for a missing content
ParseCompletionNoContentCheck(response) ==
  LET content == response.content
      parsed == JSONparse(content)
      tasks == ExtractTasks(parsed.v)
      processedTasks == ProcessTasks(tasks)
  IN  IF ~parsed.ok
        THEN Thrown(WrapError(<<"Invalid JSON response from AI">>))
      ELSE IF Len(tasks) = 0
        THEN Thrown(WrapError(<<"No valid tasks could be extracted from the conversation">>))
      ELSE IF Len(processedTasks) = 0
        THEN Thrown(WrapError(<<"No valid tasks could be extracted after processing">>))
      ELSE Returned(processedTasks)
\* the same steps without the throw for an empty processedTasks
ParseCompletionNoSurvivorCheck(response) ==
  LET content == response.content
      parsed == JSONparse(content)
      tasks == ExtractTasks(parsed.v)
  IN  IF response.choices = 0 \/ ~response.hasContent \/ content = <<>>
        THEN Thrown(WrapError(<<"No response from AI">>))
      ELSE IF ~parsed.ok
        THEN Thrown(WrapError(<<"Invalid JSON response from AI">>))
      ELSE IF Len(tasks) = 0
        THEN Thrown(WrapError(<<"No valid tasks could be extracted from the conversation">>))
      ELSE Returned(ProcessTasks(tasks))
\* the steps from `const content = ...` to `return processedTasks`
ParseCompletion(response) ==
  LET content == response.content
      parsed == JSONparse(content)
      tasks == ExtractTasks(parsed.v)
      processedTasks == ProcessTasks(tasks)
  IN  IF response.choices = 0 \/ ~response.hasContent \/ content = <<>>
        THEN Thrown(WrapError(<<"No response from AI">>))
      ELSE IF ~parsed.ok
        THEN Thrown(WrapError(<<"Invalid JSON response from AI">>))
      ELSE IF Len(tasks) = 0
        THEN Thrown(WrapError(<<"No valid tasks could be extracted from the conversation">>))
      ELSE IF Len(processedTasks) = 0
        THEN Thrown(WrapError(<<"No valid tasks could be extracted after processing">>))
      ELSE Returned(processedTasks)

(***************************************************************************)
(* The responses of the remote model that the model explores.              *)
(***************************************************************************)
\* JSON text of a value, token by token
RECURSIVE Stringify(_)
RECURSIVE StringifyElements(_)
RECURSIVE StringifyMembers(_)
Stringify(v) ==
  CASE v.t = "array"  -> <<Tok("[")>> \o StringifyElements(v.a) \o <<Tok("]")>>
    [] v.t = "object" -> <<Tok("{")>> \o StringifyMembers(v.o) \o <<Tok("}")>>
    [] OTHER          -> <<ValTok(v)>>
StringifyElements(a) ==
  IF a = <<>> THEN <<>>
  ELSE Stringify(Head(a))
       \o (IF Len(a) > 1 THEN <<Tok(",")>> \o StringifyElements(Tail(a)) ELSE <<>>)
StringifyMembers(o) ==
  IF o = <<>> THEN <<>>
  ELSE <<KeyTok(Head(o).k), Tok(":")>> \o Stringify(Head(o).v)
       \o (IF Len(o) > 1 THEN <<Tok(",")>> \o StringifyMembers(Tail(o)) ELSE <<>>)

sFix       == <<"F","i","x">>
sNumFix    == <<"1","."," ","F","i","x">>
sNum2Fix   == <<"1","."," ","2",")"," ","F","i","x">>
sNumOnly   == <<"1",".">>
sBlank     == <<" "," ">>
sRajToCall == <<"R","a","j"," ","t","o"," ","c","a","l","l">>
sNeedToFix == <<"n","e","e","d"," ","t","o"," ","f","i","x">>
sRajToGoToIt == <<"R","a","j"," ","t","o"," ","g","o"," ","t","o"," ","i","t">>
sAnnLeeWillGo == <<"A","n","n"," ","L","e","e"," ","W","i","l","l"," ","g","o">>
sBob       == <<"B","o","b">>
sAnnPadded == <<" ","A","n","n"," ">>
sCy        == <<"C","y">>
sJune7     == <<"2","0","2","4","-","0","6","-","0","7">>
sSoon      == <<"s","o","o","n">>
sHigh      == <<"h","i","g","h">>
sUrgent    == <<"u","r","g","e","n","t">>
sLow       == <<"L","o","w">>
sNormal    == <<"n","o","r","m","a","l">>
sImportant == <<"I","m","p","o","r","t","a","n","t">>
sP4Lower   == <<"p","4">>
sJune8     == <<"2","0","2","4","-","0","6","-","0","8">>

Descriptions == {sFix, sNumFix, sNum2Fix, sNumOnly, sBlank, sRajToCall, sNeedToFix,
                 sRajToGoToIt, sAnnLeeWillGo, <<"X">>}

Field(k, s) == <<Prop(k, JStr(s))>>
Desc(s) == JObj(Field("description", s))

\* the candidates that the candidate sequences are built from
CoreCandidates ==
  { JStr(sNumFix), Desc(sFix), Desc(sNumOnly), JNull,
    JObj(Field("action", sRajToCall)),
    JObj(Field("task", sFix)),
    JObj(Field("note", sFix)),
    JObj(<<Prop("task", Desc(sNeedToFix)), Prop("assignee", JStr(sBob))>>),
    JObj(<<Prop("description", JObj(<<Prop("toString", JNum(1))>>))>>) }

\* the longest candidate sequence explored
MaxCandidates == 2
RECURSIVE SeqsUpTo(_, _)
SeqsUpTo(S, n) ==
  IF n = 0 THEN {<<>>}
  ELSE LET shorter == SeqsUpTo(S, n - 1)
       IN  shorter \cup {Append(q, c) : q \in {r \in shorter : Len(r) = n - 1}, c \in S}
CandidateSeqs == SeqsUpTo(CoreCandidates, MaxCandidates)

\* one candidate with each description field, and with two of them
DescriptionCandidates ==
  { JObj(Field(k, s)) :
      k \in {"description", "task", "action", "item", "todo", "note"},
      s \in Descriptions }
  \cup { JObj(Field(ks[1], sFix) \o Field(ks[2], sRajToCall)) :
      ks \in {p \in {"task", "action", "item", "todo"} \X {"action", "item", "todo"} :
                p[1] # p[2]} }
  \cup { JObj(<<Prop("description", JStr(<<>>))>> \o Field("todo", sNumFix)),
         JObj(<<Prop("action", JNum(5))>> \o Field("item", sFix)),
         JObj(<<Prop("description", JNum(12))>>) }

\* one candidate with each combination of the assignee fields
OptionalProp(k, v) == IF v.t = "undefined" THEN <<>> ELSE <<Prop(k, v)>>
AssigneeCandidates ==
  { JObj(Field("description", d) \o OptionalProp("assignee", a)
         \o OptionalProp("assignedTo", at) \o OptionalProp("owner", ow)) :
      d \in {sFix, sRajToCall},
      a \in {Undefined, JStr(sBob), JStr(sAnnPadded), JStr(sBlank), JStr(<<>>), JNum(42)},
      at \in {Undefined, JStr(sAnnPadded), JNum(7), JObj(<<>>)},
      ow \in {Undefined, JStr(sCy), JNum(9)} }

\* one candidate with a due date or a priority field
OtherCandidates ==
  { JObj(Field("description", sFix) \o <<Prop(k, v)>>) :
      k \in {"due_date", "deadline"}, v \in {JStr(sJune7), JStr(sSoon), JNum(5)} }
  \cup { JObj(Field("description", sFix) \o <<Prop(k, v)>>) :
      k \in {"priority", "severity"}, v \in {JStr(sHigh), JStr(sSoon), JStr(P2), JNum(1)} }

\* one candidate with each combination of the priority fields
PriorityCandidates ==
  { JObj(Field("description", sFix) \o OptionalProp("priority", p)
         \o OptionalProp("importance", im) \o OptionalProp("severity", sv)) :
      p \in {Undefined, JStr(sSoon), JStr(sLow), JStr(sP4Lower)},
      im \in {Undefined, JStr(sUrgent), JStr(sSoon)},
      sv \in {Undefined, JStr(sNormal), JStr(sImportant)} }

\* one candidate with each combination of three of the due date fields
DueDateCandidates ==
  { JObj(Field("description", sFix) \o OptionalProp("deadline", dl)
         \o OptionalProp("date", dt) \o OptionalProp("due_date", dd)) :
      dd \in {Undefined, JStr(sSoon), JStr(sJune7), JObj(<<Prop("toString", JNum(1))>>)},
      dt \in {Undefined, JNum(5), JNum(0)},
      dl \in {Undefined, JStr(sJune8), JStr(sSoon)} }

\* descriptions around the length limit: "Fix " and digits, n characters in
\* all, alone and after a name and a connector
LongDescription(n) ==
  [i \in 1..n |-> IF i <= 3 THEN sFix[i] ELSE IF i = 4 THEN " " ELSE DigitSeq[(i % 10) + 1]]
LongLengths == {499, 500, 501, 600}
LongCandidates ==
  { Desc(LongDescription(n)) : n \in LongLengths }
  \cup { Desc(<<"R","a","j"," ","t","o"," ">> \o LongDescription(n)) : n \in LongLengths }

\* the parsed values of the responses: each candidate sequence under each
\* envelope, each single candidate as a task list and as a bare value, and
\* values that hold no task list
\* one candidate with a `task` property and each combination of fields of
\* its own beside it
WrappedCandidates ==
  { JObj(OptionalProp("description", d) \o <<Prop("task", inner)>>
         \o OptionalProp("assignee", a) \o OptionalProp("dueDate", dd)
         \o OptionalProp("priority", p)) :
      inner \in { Desc(sFix), Desc(sRajToCall), JStr(sFix),
                  JObj(Field("description", sFix) \o Field("assignee", sBob)
                       \o Field("due_date", sJune7) \o Field("priority", sLow)) },
      d \in {Undefined, JStr(sNeedToFix)},
      a \in {Undefined, JStr(sCy)},
      dd \in {Undefined, JStr(sJune8)},
      p \in {Undefined, JStr(sUrgent)} }

Envelopes(cs) ==
  { JArr(cs),
    JObj(<<Prop("tasks", JArr(cs))>>),
    JObj(<<Prop("items", JArr(cs))>>),
    JObj(<<Prop("description", JStr(sFix)), Prop("items", JArr(cs))>>),
    JObj(<<Prop("first", JArr(substringTo(cs, 1))),
           Prop("rest", JArr(substringFrom(cs, 1)))>>),
    JObj([i \in DOMAIN cs |-> Prop(IF i = 1 THEN "first" ELSE "other", cs[i])]) }
ResponseValues ==
  UNION {Envelopes(cs) : cs \in CandidateSeqs}
  \cup UNION { {JObj(<<Prop("tasks", JArr(<<c>>))>>), c} :
               c \in DescriptionCandidates \cup AssigneeCandidates \cup OtherCandidates
                     \cup PriorityCandidates \cup DueDateCandidates \cup LongCandidates
                     \cup WrappedCandidates }
  \cup UNION { {JArr(<<c>>), JObj(<<Prop("tasks", JArr(<<c>>))>>), c} :
               c \in { JObj(Field("action", sRajToCall)
                            \o <<Prop("tags", JArr(<<JStr(sFix)>>))>>),
                       JObj(Field("todo", sFix)
                            \o <<Prop("meta", JObj(<<Prop("id", JNum(1))>>))>>),
                       JObj(Field("description", sFix)
                            \o <<Prop("tasks", JArr(<<Desc(sRajToCall)>>))>>) } }
  \cup { JNum(5), JNull, JBool(TRUE), JStr(sFix),
         JObj(<<Prop("tasks", JNum(5))>>),
         JObj(<<Prop("tasks", JObj(Field("description", sFix)))>>) }

\* the response texts: the JSON text of each value, and texts that are no
\* JSON: empty, prose, and a text cut off before its end
Contents ==
  {Stringify(v) : v \in ResponseValues}
  \cup { <<>>, <<[p |-> "text", k |-> "", v |-> Undefined]>>,
         SubSeq(Stringify(JObj(<<Prop("tasks", JArr(<<Desc(sFix)>>))>>)), 1, 6),
         Stringify(Desc(sFix)) \o <<Tok(",")>> }

\* the completions: one choice with each content, no choice, a choice
\* without content
Completions ==
  {Completion(1, TRUE, c) : c \in Contents}
  \cup {Completion(0, FALSE, <<>>), Completion(1, FALSE, <<>>)}

(***************************************************************************)
(* State.                                                                  *)
(*   response, stage, result, tasks, iterations, returned: one run of      *)
(*   parseTasksFromConversation from the settled completion on.            *)
(*   The other variables: one createTask request.                          *)
(***************************************************************************)
VARIABLES
  response,      \* the completion the race settled with
  stage,         \* "settled": the completion is in; "finished": returned or thrown
  result,        \* JSON.parse(content), Undefined if there is none
  tasks,         \* the candidate sequence
  iterations,    \* the outcome of the loop body for each candidate
  returned,      \* what parseTasksFromConversation returned or threw
  pc,            \* where createTask is suspended
  conversationLength, \* text.length of the request
  attempt,       \* loop variable of the retry loop
  timeline,      \* calls of parseTasksFromConversation and backoff sleeps, in order
  inflight,      \* attempts whose remote completion call has not settled
  timers,        \* attempts whose timeout timer has not fired
  outcomes,      \* what each settled call of parseTasksFromConversation returned or threw
  lastError,     \* lastError of createTask
  parsedTasks,   \* parsedTasks of createTask
  index,         \* i of the persistence loop
  createdTasks,  \* tasks saved for this request
  taskErrors,    \* indices of the tasks that could not be saved
  reply,         \* the HTTP response sent, status 0 while none is
  settlements,   \* what settled the race of each settled attempt
  now,           \* the local calendar day of new Date(), in days since 1970-01-01
  clock,         \* the instant of new Date() and the server's local zone offset
  anchors        \* today, tomorrow and friday of the last call, as days

parseVars == <<response, stage, result, tasks, iterations, returned>>
requestVars == <<pc, conversationLength, attempt, timeline, inflight, timers, outcomes,
                 lastError, parsedTasks, index, createdTasks, taskErrors, reply,
                 settlements>>
anchorVars == <<now, clock, anchors>>
vars == <<parseVars, requestVars, anchorVars>>

NoError == [set |-> FALSE, message |-> <<>>]
Error(message) == [set |-> TRUE, message |-> message]
NoReply == [status |-> 0, error |-> "", message |-> <<>>, created |-> 0, failed |-> 0,
            total |-> 0]

ParseIdle ==
  /\ response = Completion(0, FALSE, <<>>)
  /\ stage = "idle"
  /\ result = Undefined
  /\ tasks = <<>>
  /\ iterations = <<>>
  /\ returned = Thrown(<<>>)

RequestIdle ==
  /\ pc = "idle"
  /\ conversationLength = 0
  /\ attempt = 0
  /\ timeline = <<>>
  /\ inflight = {}
  /\ timers = {}
  /\ outcomes = <<>>
  /\ lastError = NoError
  /\ parsedTasks = <<>>
  /\ index = 0
  /\ createdTasks = <<>>
  /\ taskErrors = <<>>
  /\ reply = NoReply
  /\ settlements = <<>>

(***************************************************************************)
(* The date anchors that parseTasksFromConversation computes when it is    *)
(* called.  A date is a number of days since 1970-01-01, a Thursday; an     *)
(* instant and a zone offset are numbers of half hours.                    *)
(***************************************************************************)
\* 'Asia/Kolkata', UTC+05:30; declared and not read by any statement
TIME_ZONE == 11
\* the calendar day that the getters of Date and format of date-fns read
\* from an instant on a server whose local zone has the given offset
LocalDay(instant, offset) == (instant + offset) \div 48
\* new Date() on a server
Clock(instant, offset) == [instant |-> instant, offset |-> offset]
\* Date.prototype.getDay: 0 = Sunday .. 6 = Saturday
getDay(date) == (date + 4) % 7
\* addDays of date-fns
addDays(date, amount) == date + amount
\* (5 - currentDate.getDay() + 7) % 7 || 7, and a variant without the `|| 7`
daysUntilFridayOrZero(currentDate) == (5 - getDay(currentDate) + 7) % 7
daysUntilFriday(currentDate) ==
  IF (5 - getDay(currentDate) + 7) % 7 = 0 THEN 7 ELSE (5 - getDay(currentDate) + 7) % 7
NoAnchors == [set |-> FALSE, today |-> 0, tomorrow |-> 0, friday |-> 0]
DateAnchors(currentDate) ==
  [set |-> TRUE, today |-> currentDate, tomorrow |-> addDays(currentDate, 1),
   friday |-> addDays(currentDate, daysUntilFriday(currentDate))]

\* the last day explored
MaxDay == 55

\* the local zones of the servers explored: UTC-05:00, UTC, UTC+05:30
ServerZones == {-10, 0, 11}
\* the instants explored: 00:00, 12:00 and 20:00 UTC of each day
Instants == {48 * d + t : d \in 0..MaxDay, t \in {0, 24, 40}}

AnchorInit ==
  /\ ParseIdle
  /\ RequestIdle
  /\ clock \in {Clock(i, z) : i \in Instants, z \in ServerZones}
  /\ now = LocalDay(clock.instant, clock.offset)
  /\ anchors = NoAnchors

\* the first statements of parseTasksFromConversation
ComputeAnchors ==
  /\ ~anchors.set
  /\ anchors' = DateAnchors(now)
  /\ UNCHANGED <<parseVars, requestVars, now, clock>>

AnchorNext == ComputeAnchors
SpecAnchors == AnchorInit /\ [][AnchorNext]_vars

(***************************************************************************)
(* parseTasksFromConversation on one completion.                           *)
(***************************************************************************)
ParseInit ==
  /\ response \in Completions
  /\ stage = "settled"
  /\ result = Undefined
  /\ tasks = <<>>
  /\ iterations = <<>>
  /\ returned = Thrown(<<>>)
  /\ RequestIdle
  /\ clock = Clock(0, 0)
  /\ now = 0
  /\ anchors = DateAnchors(0)

\* from `const content = ...` to the return or the throw
NormalizeAndResolve ==
  /\ stage = "settled"
  /\ stage' = "finished"
  /\ LET hasContent == response.choices > 0 /\ response.hasContent
                       /\ response.content # <<>>
         parsed == JSONparse(response.content)
     IN  /\ result' = IF hasContent /\ parsed.ok THEN parsed.v ELSE Undefined
         /\ tasks' = IF hasContent /\ parsed.ok THEN ExtractTasks(parsed.v) ELSE <<>>
  /\ iterations' = [i \in DOMAIN tasks' |-> ProcessTask(tasks'[i])]
  /\ returned' = ParseCompletion(response)
  /\ UNCHANGED <<response, requestVars, anchorVars>>

ParseNext == NormalizeAndResolve
SpecParse == ParseInit /\ [][ParseNext]_vars

(***************************************************************************)
(* createTask: one request, from the validation of its text on.  An action *)
(* is one run of the handler between two suspensions: it starts when the   *)
(* awaited event arrives and runs to the next await on a timer, the remote *)
(* call or the database, or to the response.                               *)
(***************************************************************************)
maxRetries == 2
MAX_INPUT_TOKENS == 3000
TruncationMarkerLength == 15

\* a backoff that does not grow
delayMsConstant(n) == 1000
\* 1000 * Math.pow(2, attempt)
delayMs(n) == 1000 * 2^n

\* truncatedText.length
truncatedLength(n) ==
  IF n > MAX_INPUT_TOKENS THEN MAX_INPUT_TOKENS + TruncationMarkerLength ELSE n

\* truncatedText of a text of n characters: how many of its leading
\* characters it keeps, whether '... [truncated]' follows them, its length
Text(kept, marker, length) == [kept |-> kept, marker |-> marker, length |-> length]
truncatedTextFromBudget(n) ==
  IF n >= MAX_INPUT_TOKENS
  THEN Text(MAX_INPUT_TOKENS, TRUE, MAX_INPUT_TOKENS + TruncationMarkerLength)
  ELSE Text(n, FALSE, n)
truncatedText(n) ==
  IF n > MAX_INPUT_TOKENS
  THEN Text(MAX_INPUT_TOKENS, TRUE, truncatedLength(n))
  ELSE Text(n, FALSE, truncatedLength(n))

\* the dates that systemPrompt and userPrompt interpolate from the anchors
\* of the call: the one substitution of the two templates is truncatedText
PromptDates(a) == {}
\* a call of the model with its messages (the text submitted, the dates
\* embedded), a backoff sleep
CallEvent(n, submitted) ==
  [e |-> "call", n |-> n, ms |-> 0, submitted |-> submitted,
   dates |-> PromptDates(DateAnchors(now))]
SleepEvent(n, ms) ==
  [e |-> "sleep", n |-> n, ms |-> ms, submitted |-> Text(0, FALSE, 0), dates |-> {}]

\* what settled a race: the remote call resolving with a completion, the
\* remote call rejecting with an error, or the timer
Settlement(by, completion, error) == [by |-> by, completion |-> completion, error |-> error]
NoCompletion == [choices |-> 0, hasContent |-> FALSE, content |-> <<>>]
NoRemoteError == [isError |-> FALSE, message |-> ""]

\* the requests explored: no text, a short text, text at the truncation
\* budget, text over it
ConversationLengths == {0, 1, 3000, 3001}
\* the days on which the request is made: a Thursday, a Friday
RequestDays == {0, 1}

\* the completions and the rejections of the remote call explored
RequestCompletions ==
  { Completion(0, FALSE, <<>>),
    Completion(1, TRUE, <<[p |-> "text", k |-> "", v |-> Undefined]>>),
    Completion(1, FALSE, <<>>),
    Completion(1, TRUE, Stringify(JObj(<<Prop("tasks", JArr(<<>>))>>))),
    Completion(1, TRUE, Stringify(JArr(<<>>))),
    Completion(1, TRUE, Stringify(JArr(<<JObj(Field("note", sFix))>>))),
    Completion(1, TRUE, Stringify(JObj(<<Prop("tasks", JArr(<<Desc(sFix)>>))>>))),
    Completion(1, TRUE, Stringify(JArr(<<Desc(sNumOnly), JStr(sRajToCall)>>))) }
RemoteErrors ==
  { [isError |-> TRUE, message |-> "Connection error."],
    [isError |-> FALSE, message |-> ""] }

\* the rejection of the inner async function (its catch block)
ApiError(e) ==
  Thrown(WrapError(<<"OpenAI API error: ",
                     IF e.isError THEN e.message ELSE "Unknown error">>))
\* a timer whose rejection reads like a rejection of the remote call
TimeoutAsApiError == ApiError(NoRemoteError)
\* the rejection of the timer promise
TimeoutError == Thrown(WrapError(<<"OpenAI API timeout">>))

Reply(status, error, message, created, failed, total) ==
  [status |-> status, error |-> error, message |-> message, created |-> created,
   failed |-> failed, total |-> total]

RequestInit ==
  /\ ParseIdle
  /\ pc = "received"
  /\ conversationLength \in ConversationLengths
  /\ attempt = 0
  /\ timeline = <<>>
  /\ inflight = {}
  /\ timers = {}
  /\ outcomes = <<>>
  /\ lastError = NoError
  /\ parsedTasks = <<>>
  /\ index = 0
  /\ createdTasks = <<>>
  /\ taskErrors = <<>>
  /\ reply = NoReply
  /\ settlements = <<>>
  /\ clock \in {Clock(48 * d, 0) : d \in RequestDays}
  /\ now = LocalDay(clock.instant, clock.offset)
  /\ anchors = NoAnchors

\* a call raced against nothing: no timer is armed
StartAttemptNoTimer(n) ==
  /\ pc' = "race"
  /\ attempt' = n
  /\ anchors' = DateAnchors(now)
  /\ timeline' = Append(timeline, CallEvent(n, truncatedText(conversationLength)))
  /\ inflight' = inflight \cup {n}
  /\ timers' = timers
\* an iteration of the retry loop up to `await Promise.race(...)`: the call
\* of parseTasksFromConversation computes the date anchors, issues the
\* remote call with the truncated text and arms the timer
StartAttempt(n) ==
  /\ pc' = "race"
  /\ attempt' = n
  /\ anchors' = DateAnchors(now)
  /\ timeline' = Append(timeline, CallEvent(n, truncatedText(conversationLength)))
  /\ inflight' = inflight \cup {n}
  /\ timers' = timers \cup {n}

\* a persistence loop that passes over a task without description and does
\* not record it
RECURSIVE SkipUnsavedUncounted(_, _, _)
SkipUnsavedUncounted(i, errors, ptasks) ==
  IF i < Len(ptasks) /\ ptasks[i + 1].description = <<>>
  THEN SkipUnsavedUncounted(i + 1, errors, ptasks)
  ELSE [i |-> i, errors |-> errors]
\* createTaskFromParsed returns null without a save for a task without
\* description: the persistence loop records the error and goes on
RECURSIVE SkipUnsaved(_, _, _)
SkipUnsaved(i, errors, ptasks) ==
  IF i < Len(ptasks) /\ ptasks[i + 1].description = <<>>
  THEN SkipUnsaved(i + 1, Append(errors, i), ptasks)
  ELSE [i |-> i, errors |-> errors]

\* the persistence loop from index i to the next `await task.save()`, or to
\* the response after the loop
PersistFrom(i, created, errors, ptasks) ==
  LET st == SkipUnsaved(i, errors, ptasks)
  IN  /\ index' = st.i
      /\ taskErrors' = st.errors
      /\ createdTasks' = created
      /\ IF st.i < Len(ptasks)
         THEN pc' = "save" /\ reply' = reply
         ELSE /\ pc' = "done"
              /\ reply' = IF Len(created) = 0
                          THEN Reply(500, "Failed to create tasks",
                                     <<"No tasks were created successfully">>, 0, 0, 0)
                          ELSE Reply(201, "", <<>>, Len(created), Len(st.errors),
                                     Len(ptasks))

\* a catch block that keeps the first error
CaughtErrorKeepFirst(previous, message) ==
  IF previous.set THEN previous ELSE Error(message)
\* lastError = parseError in the catch block of the retry loop
CaughtError(previous, message) == Error(message)

\* a retry loop that never gives up
GivesUpNever(n) == FALSE
\* attempt === maxRetries in the catch block of the retry loop
GivesUp(n) == n = maxRetries

\* createTask from the settling of parseTasksFromConversation(text) on:
\* the rest of the try block or the catch block of the retry loop, and what
\* follows the loop
AttemptEnds(outcome) ==
  LET ok == outcome.ok /\ Len(outcome.tasks) > 0
      message == IF outcome.ok
                 THEN <<"No tasks were extracted from the conversation">>
                 ELSE outcome.message
  IN  /\ outcomes' = Append(outcomes, outcome)
      /\ IF ok
         THEN /\ parsedTasks' = outcome.tasks
              /\ lastError' = NoError
              /\ PersistFrom(0, <<>>, <<>>, outcome.tasks)
              /\ UNCHANGED <<attempt, timeline>>
         ELSE /\ lastError' = CaughtError(lastError, message)
              /\ UNCHANGED <<attempt, parsedTasks, index, createdTasks, taskErrors>>
              /\ IF GivesUp(attempt)
                 THEN /\ pc' = "done"
                      /\ reply' = Reply(500, "Failed to process the meeting minutes",
                                        lastError'.message, 0, 0, 0)
                      /\ timeline' = timeline
                 ELSE /\ pc' = "sleep"
                      /\ reply' = reply
                      /\ timeline' =
                           Append(timeline, SleepEvent(attempt, delayMs(attempt)))

\* createTask up to its first suspension
Receive ==
  /\ pc = "received"
  /\ IF conversationLength = 0
     THEN /\ pc' = "done"
          /\ reply' = Reply(400, "Validation Error", <<"Text or file is required">>,
                            0, 0, 0)
          /\ UNCHANGED <<attempt, timeline, inflight, timers, anchors>>
     ELSE StartAttempt(0) /\ reply' = reply
  /\ UNCHANGED <<parseVars, conversationLength, outcomes, lastError, parsedTasks, index,
                 createdTasks, taskErrors, settlements, now, clock>>

\* the remote call of attempt a resolves; the race of attempt a is pending
\* exactly when createTask is suspended in that attempt
RemoteResolves(a, completion) ==
  /\ a \in inflight
  /\ inflight' = inflight \ {a}
  /\ IF pc = "race" /\ a = attempt
     THEN /\ AttemptEnds(ParseCompletion(completion))
          /\ settlements' = Append(settlements,
                                   Settlement("resolved", completion, NoRemoteError))
     ELSE UNCHANGED <<pc, attempt, timeline, outcomes, lastError, parsedTasks, index,
                      createdTasks, taskErrors, reply, settlements>>
  /\ UNCHANGED <<parseVars, conversationLength, timers, anchorVars>>

\* the remote call of attempt a rejects
RemoteRejects(a, e) ==
  /\ a \in inflight
  /\ inflight' = inflight \ {a}
  /\ IF pc = "race" /\ a = attempt
     THEN /\ AttemptEnds(ApiError(e))
          /\ settlements' = Append(settlements, Settlement("rejected", NoCompletion, e))
     ELSE UNCHANGED <<pc, attempt, timeline, outcomes, lastError, parsedTasks, index,
                      createdTasks, taskErrors, reply, settlements>>
  /\ UNCHANGED <<parseVars, conversationLength, timers, anchorVars>>

\* the timer of attempt a fires; the remote call is not cancelled
TimerFires(a) ==
  /\ a \in timers
  /\ timers' = timers \ {a}
  /\ IF pc = "race" /\ a = attempt
     THEN /\ AttemptEnds(TimeoutError)
          /\ settlements' = Append(settlements,
                                   Settlement("timeout", NoCompletion, NoRemoteError))
     ELSE UNCHANGED <<pc, attempt, timeline, outcomes, lastError, parsedTasks, index,
                      createdTasks, taskErrors, reply, settlements>>
  /\ UNCHANGED <<parseVars, conversationLength, inflight, anchorVars>>

\* the backoff sleep ends: the next iteration of the retry loop
SleepDone ==
  /\ pc = "sleep"
  /\ StartAttempt(attempt + 1)
  /\ UNCHANGED <<parseVars, conversationLength, outcomes, lastError, parsedTasks, index,
                 createdTasks, taskErrors, reply, settlements, now, clock>>

\* task.save() of parsedTasks[index] settles: saved, or createTaskFromParsed
\* catches the error and returns null
SaveSettles(saved) ==
  /\ pc = "save"
  /\ PersistFrom(index + 1,
                 IF saved THEN Append(createdTasks, parsedTasks[index + 1])
                 ELSE createdTasks,
                 IF saved THEN taskErrors ELSE Append(taskErrors, index),
                 parsedTasks)
  /\ UNCHANGED <<parseVars, conversationLength, attempt, timeline, inflight, timers,
                 outcomes, lastError, parsedTasks, settlements, anchorVars>>

Next ==
  \/ Receive
  \/ \E a \in 0..maxRetries, c \in RequestCompletions : RemoteResolves(a, c)
  \/ \E a \in 0..maxRetries, e \in RemoteErrors : RemoteRejects(a, e)
  \/ \E a \in 0..maxRetries : TimerFires(a)
  \/ SleepDone
  \/ \E saved \in BOOLEAN : SaveSettles(saved)

Spec == RequestInit /\ [][Next]_vars

\* What the event loop and the configuration guarantee: a continuation that
\* is ready runs, a timer that is armed fires (the 30 s timer of the race,
\* the timer of the backoff sleep), and a save settles (the connection is
\* opened with a server selection and a socket timeout).  Nothing is assumed
\* of the remote completion call, which may never settle.
Fairness ==
  /\ WF_vars(Receive)
  /\ WF_vars(SleepDone)
  /\ \A a \in 0..maxRetries : WF_vars(TimerFires(a))
  /\ WF_vars(\E saved \in BOOLEAN : SaveSettles(saved))
SpecFair == RequestInit /\ [][Next]_vars /\ Fairness

(***************************************************************************)
(* Properties of the retry loop of createTask (under Spec).                *)
(***************************************************************************)
AttemptFailed(i) == ~(outcomes[i].ok /\ outcomes[i].tasks # <<>>)
AttemptSucceeded(i) == outcomes[i].ok /\ outcomes[i].tasks # <<>>

\* C1: Retry success path.  When the first k attempts (k in 0..2) have failed
\* and attempt k+1 has returned a non-empty task list, createTask uses that
\* list as parsedTasks and has left the retry loop; from then on the
\* timeline holds exactly k+1 calls of parseTasksFromConversation and k
\* sleeps, call j+1 at position 2j+1 and the i-th sleep (i = 0..k-1), of
\* 1000 * 2^i ms, between call i+1 and call i+2: 1000 ms and 2000 ms before
\* the third attempt.
C1_RetrySuccessPath ==
  \A k \in 0..2 :
    (/\ Len(outcomes) = k + 1
     /\ \A i \in 1..k : AttemptFailed(i)
     /\ AttemptSucceeded(k + 1))
    => /\ parsedTasks = outcomes[k + 1].tasks
       /\ ~lastError.set
       /\ pc \in {"save", "done"}
       /\ Len(timeline) = 2 * k + 1
       /\ \A j \in 0..k :
            timeline[2 * j + 1].e = "call" /\ timeline[2 * j + 1].n = j
       /\ \A i \in 0..(k - 1) :
            timeline[2 * i + 2].e = "sleep" /\ timeline[2 * i + 2].ms = 1000 * 2^i
       /\ (k = 2 => timeline[2].ms = 1000 /\ timeline[4].ms = 2000)

\* two failures, then a success that is stored and answered with 201
C1_Witness ==
  /\ Len(outcomes) = 3
  /\ AttemptFailed(1) /\ AttemptFailed(2) /\ AttemptSucceeded(3)
  /\ pc = "done"
  /\ reply.status = 201

\* C2: Exhaustion.  While every attempt so far has failed and fewer than 3
\* attempts have been made, no response is sent; when all of 3 attempts have
\* failed, the request is over with exactly 3 calls and 2 sleeps, the last
\* event being the third call (no sleep after the third failure), no task
\* created, and one 500 response whose message is the message of the third
\* failure.  No fourth attempt is ever made.
C2_Exhaustion ==
  /\ Len(outcomes) <= 3
  /\ (\A i \in DOMAIN outcomes : AttemptFailed(i)) =>
       /\ Len(outcomes) < 3 /\ conversationLength > 0 =>
            pc \in {"received", "race", "sleep"} /\ reply.status = 0
       /\ Len(outcomes) = 3 =>
            /\ pc = "done"
            /\ Len(timeline) = 5
            /\ \A j \in 1..5 : timeline[j].e = (IF j % 2 = 1 THEN "call" ELSE "sleep")
            /\ createdTasks = <<>>
            /\ parsedTasks = <<>>
            /\ reply.status = 500
            /\ reply.error = "Failed to process the meeting minutes"
            /\ reply.message = outcomes[3].message

\* three failures with three different messages, answered
C2_Witness ==
  /\ Len(outcomes) = 3
  /\ \A i \in 1..3 : AttemptFailed(i)
  /\ outcomes[3].message # outcomes[1].message
  /\ outcomes[3].message # outcomes[2].message
  /\ reply.status = 500

\* C3: Retries are sequential: at every moment at most one remote completion
\* call issued for the request is in flight, however the attempts end.
C3_OneRemoteCallInFlight == Cardinality(inflight) <= 1

(***************************************************************************)
(* Properties of parseTasksFromConversation (under SpecParse).             *)
(***************************************************************************)
\* the response was parsed as JSON and the function has returned or thrown
ParsedResponse == stage = "finished" /\ result.t # "undefined"
Pushed(i) == iterations[i].kind = "push"

\* C4: Every ParsedTask that parseTasksFromConversation returns has a
\* description of 1 to 500 characters: a candidate whose description comes
\* out empty is dropped, not returned.
C4_DescriptionLength ==
  (stage = "finished" /\ returned.ok) =>
    \A i \in DOMAIN returned.tasks :
      /\ Len(returned.tasks[i].description) >= 1
      /\ Len(returned.tasks[i].description) <= 500

\* the tasks pushed by the iterations, in the order of the candidates
RECURSIVE Survivors(_)
Survivors(its) ==
  IF its = <<>> THEN <<>>
  ELSE (IF Head(its).kind = "push" THEN <<Head(its).task>> ELSE <<>>)
       \o Survivors(Tail(its))
\* no description can be derived from the candidate
LacksDescription(task) ==
  ~Truthy(task) \/ ~Truthy(DescriptionValue(TaskObj(task)))

C5_WitnessSurvivor ==
  /\ ParsedResponse
  /\ Len(tasks) = 2
  /\ ~Pushed(1) /\ Pushed(2)
  /\ returned.ok /\ Len(returned.tasks) = 1

\* the property values of the parsed value, and the concatenation of arrays
PropertyValues(v) == [i \in DOMAIN v.o |-> v.o[i].v]
RECURSIVE Concatenation(_)
Concatenation(arrs) ==
  IF arrs = <<>> THEN <<>> ELSE Head(arrs).a \o Concatenation(Tail(arrs))
ArrayValued(v) == SelectSeq(PropertyValues(v), LAMBDA x : x.t = "array")
MappingValued(v) == SelectSeq(PropertyValues(v), LAMBDA x : x.t = "object")
HasTasksArray(v) ==
  v.t = "object" /\ \E i \in DOMAIN v.o : v.o[i].k = "tasks" /\ v.o[i].v.t = "array"
TasksArray(v) == v.o[CHOOSE i \in DOMAIN v.o : v.o[i].k = "tasks"].v.a
\* a description property that is neither null, false, 0 nor ""
HasDescription(v) ==
  v.t = "object" /\ \E i \in DOMAIN v.o :
    /\ v.o[i].k = "description"
    /\ v.o[i].v.t \notin {"null", "undefined"}
    /\ v.o[i].v # JBool(FALSE) /\ v.o[i].v # JNum(0) /\ v.o[i].v # JStr(<<>>)

\* C6 (as stated): the candidate sequence is (a) the array; (b) the `tasks`
\* array; (c) for a mapping with exactly one array-valued property, the
\* array-valued properties flattened; (d) otherwise the mapping-valued
\* properties; (e) otherwise the whole value as one candidate.
C6_StatedCascade ==
  ParsedResponse =>
    tasks = IF result.t = "array" THEN result.a
            ELSE IF HasTasksArray(result) THEN TasksArray(result)
            ELSE IF result.t = "object" /\ Len(ArrayValued(result)) = 1
              THEN Concatenation(ArrayValued(result))
            ELSE IF result.t = "object" /\ MappingValued(result) # <<>>
              THEN MappingValued(result)
            ELSE <<result>>

\* C6: Response normalizer cascade.  The candidate sequence is chosen by the
\* first applicable rule: (a) the value is an array -> the array; (b) it has
\* a `tasks` array -> that array; (b') it has a truthy `description` -> the
\* value itself as the single candidate; (c) it is a mapping with at least
\* one array-valued property -> all array-valued properties flattened one
\* level, in property order; (d) otherwise its mapping-valued properties,
\* each as one candidate; (e) if it has none, the mapping itself as the
\* single candidate.  A value that is neither an array nor a mapping (a
\* string, a number, a boolean, null) gives the empty sequence.
C6_NormalizerCascade ==
  ParsedResponse =>
    tasks = IF result.t = "array" THEN result.a
            ELSE IF HasTasksArray(result) THEN TasksArray(result)
            ELSE IF HasDescription(result) THEN <<result>>
            ELSE IF result.t = "object" /\ ArrayValued(result) # <<>>
              THEN Concatenation(ArrayValued(result))
            ELSE IF result.t = "object" /\ MappingValued(result) # <<>>
              THEN MappingValued(result)
            ELSE IF result.t = "object" THEN <<result>>
            ELSE <<>>

\* a mapping with two non-empty array-valued properties: both flattened
C6_Witness ==
  /\ ParsedResponse
  /\ result.t = "object" /\ Len(result.o) = 2
  /\ result.o[1].v.t = "array" /\ result.o[1].v.a # <<>>
  /\ result.o[2].v.t = "array" /\ result.o[2].v.a # <<>>
  /\ ~HasTasksArray(result)
  /\ tasks = result.o[1].v.a \o result.o[2].v.a

\* the two envelopes of a task list
AsArray(cs) == JArr(cs)
AsTasks(cs) == JObj(<<Prop("tasks", JArr(cs))>>)
\* a mapping that carries a task: it has no `tasks` array, and a truthy
\* description or a non-empty string under an alternate description key
CarriesTask(v) ==
  /\ v.t = "object" /\ ~HasTasksArray(v)
  /\ \/ HasDescription(v)
     \/ \E i \in DOMAIN v.o :
          /\ v.o[i].k \in {"task", "action", "item", "todo"}
          /\ v.o[i].v.t = "string" /\ v.o[i].v.s # <<>>

\* C7 (as stated): a single task object t returned bare gives the candidate
\* sequence of [t] and of {"tasks":[t]}, that is t alone.
C7_StatedShapeTolerance ==
  (ParsedResponse /\ CarriesTask(result)) =>
    /\ tasks = <<result>>
    /\ ExtractTasks(AsArray(<<result>>)) = tasks
    /\ ExtractTasks(AsTasks(<<result>>)) = tasks

\* C7: Response shape tolerance.  A task list [t1..tn] gives the same
\* candidate sequence, t1..tn, as a bare array and as {"tasks":[t1..tn]}.  A
\* single task object t gives the sequence of [t] and of {"tasks":[t]}, t
\* alone, also when it is returned bare, provided that t has no `tasks`
\* array and either has a truthy `description` or has no array-valued and no
\* mapping-valued property.
C7_ShapeTolerance ==
  ParsedResponse =>
    /\ result.t = "array" =>
         /\ tasks = result.a
         /\ ExtractTasks(AsTasks(result.a)) = tasks
    /\ HasTasksArray(result) =>
         /\ tasks = TasksArray(result)
         /\ ExtractTasks(AsArray(TasksArray(result))) = tasks
    /\ (/\ result.t = "object" /\ ~HasTasksArray(result)
        /\ \/ HasDescription(result)
           \/ ArrayValued(result) = <<>> /\ MappingValued(result) = <<>>) =>
         /\ tasks = <<result>>
         /\ ExtractTasks(AsArray(<<result>>)) = tasks
         /\ ExtractTasks(AsTasks(<<result>>)) = tasks

\* a bare task object with a description and an array-valued property
C7_Witness ==
  /\ ParsedResponse
  /\ HasDescription(result) /\ ArrayValued(result) # <<>> /\ ~HasTasksArray(result)
  /\ Concatenation(ArrayValued(result)) # <<>>
  /\ tasks = <<result>>
  /\ returned.ok

\* the first non-empty string among the given keys of a mapping, in their
\* order; <<>> when there is none
RECURSIVE FirstString(_, _)
FirstString(v, keys) ==
  IF keys = <<>> \/ v.t # "object" THEN <<>>
  ELSE LET here == {i \in DOMAIN v.o : v.o[i].k = Head(keys) /\ v.o[i].v.t = "string"
                                        /\ v.o[i].v.s # <<>>}
       IN  IF here # {} THEN v.o[CHOOSE i \in here : TRUE].v.s
           ELSE FirstString(v, Tail(keys))
HasKey(v, k) == v.t = "object" /\ \E i \in DOMAIN v.o : v.o[i].k = k

\* C8: Alternate description keys.  A candidate mapping without a
\* `description` field and with a string under `task`, `action`, `item` or
\* `todo` is pushed, and its description is derived (trimmed, numbering
\* removed) from the first such string in the order task, action, item, todo.
C8_AlternateDescriptionKeys ==
  ParsedResponse =>
    \A i \in DOMAIN tasks :
      LET s == FirstString(tasks[i], <<"task", "action", "item", "todo">>)
      IN  (tasks[i].t = "object" /\ ~HasKey(tasks[i], "description") /\ s # <<>>) =>
            /\ Pushed(i)
            /\ iterations[i].trimmed = Str(trim(s))

\* s begins with an enumeration prefix: digits, then '.' or ')'
HasNumbering(s) ==
  \E d \in 1..(Len(s) - 1) :
    (\A j \in 1..d : IsDigit(s[j])) /\ s[d + 1] \in {".", ")"}

\* C9 (as stated): removing the enumeration prefix is idempotent: the
\* description after the removal is unchanged by a second removal.
C9_StatedIdempotence ==
  ParsedResponse =>
    \A i \in DOMAIN iterations :
      Pushed(i) =>
        Str(removeNumbering(iterations[i].cleaned)) = iterations[i].cleaned

\* C9: Enumeration-prefix stripping removes exactly one leading prefix of
\* digits followed by '.' or ')' and the whitespace after it, and leaves a
\* description without such a prefix unchanged; stripping twice equals
\* stripping once exactly when the stripped description does not begin with
\* a further prefix ("1. Fix" -> "Fix" -> "Fix", but "1. 2) Fix" -> "2) Fix"
\* -> "Fix").
C9_StripsOnePrefix ==
  ParsedResponse =>
    \A i \in DOMAIN iterations :
      LET t == iterations[i].trimmed
          c == iterations[i].cleaned
      IN  Pushed(i) =>
            /\ ~HasNumbering(t) => c = t
            /\ HasNumbering(t) =>
                 \E d \in 1..(Len(t) - 1), n \in 2..Len(t) :
                   /\ \A j \in 1..d : IsDigit(t[j])
                   /\ t[d + 1] \in {".", ")"}
                   /\ n >= d + 1
                   /\ \A j \in (d + 2)..n : IsSpace(t[j])
                   /\ n = Len(t) \/ ~IsSpace(t[n + 1])
                   /\ c = Str(substringFrom(t, n))
            /\ (Str(removeNumbering(c)) = c) <=> ~HasNumbering(c)

\* a doubly numbered description: the second prefix survives the removal
C9_Witness ==
  /\ ParsedResponse
  /\ \E i \in DOMAIN iterations :
       /\ Pushed(i)
       /\ HasNumbering(iterations[i].trimmed)
       /\ HasNumbering(iterations[i].cleaned)
       /\ Str(removeNumbering(iterations[i].cleaned)) # iterations[i].cleaned

\* C10: Assignee field probing.  The assignee of a pushed task is the
\* trimmed value of the first non-empty string among `assignee`,
\* `assignedTo`, `owner` of the task object, in that order; when none of the
\* three holds a non-empty string it is the name the description-prefix
\* heuristic finds, and the empty string if it finds none.
C10_AssigneeFieldProbing ==
  ParsedResponse =>
    \A i \in DOMAIN iterations :
      LET s == FirstString(TaskObj(tasks[i]), <<"assignee", "assignedTo", "owner">>)
          m == assigneeMatch(iterations[i].cleaned)
      IN  Pushed(i) =>
            iterations[i].task.assignee =
              IF s # <<>> THEN Str(trim(s))
              ELSE IF m.ok THEN Str(trim(SubSeq(iterations[i].cleaned, 1, m.nameEnd)))
              ELSE <<>>

\* The heuristic as it is described: a leading phrase of capitalized words
\* (an uppercase letter, then one or more lowercase letters) separated by
\* whitespace, then whitespace, "to" or "will" in any letter case, and
\* whitespace.  The phrase is the longest one that such a connector follows.
RECURSIVE LeadingLower(_)
LeadingLower(s) ==
  IF s = <<>> \/ ~IsLower(Head(s)) THEN 0 ELSE 1 + LeadingLower(Tail(s))
\* length of the capitalized word that s begins with, 0 if there is none
CapitalizedWord(s) ==
  IF s # <<>> /\ IsUpper(Head(s)) /\ LeadingLower(Tail(s)) >= 1
  THEN 1 + LeadingLower(Tail(s)) ELSE 0
RECURSIVE DescribedMatchAfter(_, _)
DescribedMatchAfter(s, e) ==
  LET sp == LeadingSpaces(substringFrom(s, e))
      q == e + sp
      w == CapitalizedWord(substringFrom(s, q))
      l == LeadingLetters(substringFrom(s, q))
      more == IF sp >= 1 /\ w >= 1 THEN DescribedMatchAfter(s, q + w) ELSE NoMatch
      after == LeadingSpaces(substringFrom(s, q + l))
  IN  IF sp = 0 THEN NoMatch
      ELSE IF more.ok THEN more
      ELSE IF l >= 2 /\ IsConnector(SubSeq(s, q + 1, q + l)) /\ after >= 1
           THEN [ok |-> TRUE, nameEnd |-> e, len |-> q + l + after]
      ELSE NoMatch
DescribedMatch(s) ==
  IF CapitalizedWord(s) >= 1 THEN DescribedMatchAfter(s, CapitalizedWord(s)) ELSE NoMatch
\* none of the assignee fields is present in the task object
NoAssigneeField(i) ==
  \A k \in {"assignee", "assignedTo", "owner"} : ~HasKey(TaskObj(tasks[i]), k)

\* C11: Assignee extraction from the description.  For a pushed task without
\* an assignee field whose description (trimmed, numbering removed) is a
\* capitalized name, ' to ' or ' will ', and a remainder, the assignee is the
\* name and the description is the remainder.
C11_AssigneeFromDescription ==
  ParsedResponse =>
    \A i \in DOMAIN iterations :
      LET c == iterations[i].cleaned
          m == DescribedMatch(c)
      IN  (Pushed(i) /\ NoAssigneeField(i) /\ m.ok) =>
            /\ iterations[i].task.assignee = Str(SubSeq(c, 1, m.nameEnd))
            /\ iterations[i].task.description = Str(trim(substringFrom(c, m.len)))

\* C12: The heuristic assigns a name only for a leading phrase of
\* capitalized words followed by ' to ' or ' will ': for a pushed task
\* without an assignee field whose description does not begin with such a
\* phrase, the assignee is empty and the description is unchanged.
C12_OnlyCapitalizedNames ==
  ParsedResponse =>
    \A i \in DOMAIN iterations :
      LET c == iterations[i].cleaned
      IN  (Pushed(i) /\ NoAssigneeField(i) /\ ~DescribedMatch(c).ok) =>
            /\ iterations[i].task.assignee = <<>>
            /\ iterations[i].task.description = c

\* the priority code of an upper-cased value, <<>> if it is not recognized
PriorityCode(u) ==
  CASE u \in {<<"P","1">>, <<"H","I","G","H">>, <<"U","R","G","E","N","T">>} -> <<"P","1">>
    [] u \in {<<"P","2">>, <<"M","E","D","I","U","M">>,
              <<"I","M","P","O","R","T","A","N","T">>} -> <<"P","2">>
    [] u \in {<<"P","3">>, <<"N","O","R","M","A","L">>} -> <<"P","3">>
    [] u \in {<<"P","4">>, <<"L","O","W">>} -> <<"P","4">>
    [] OTHER -> <<>>
FieldCode(o, f) == PriorityCode(Str(toUpperCase(String(Get(o, f)))))

\* C13: Priority normalization.  The priority of a pushed task is one of P1,
\* P2, P3, P4: the code of the first of the fields `priority`, `importance`,
\* `severity` whose upper-cased value is recognized (P1..P4 themselves, HIGH
\* and URGENT -> P1, MEDIUM and IMPORTANT -> P2, NORMAL -> P3, LOW -> P4),
\* and P3 if no field holds a recognized value.
C13_PriorityNormalization ==
  ParsedResponse =>
    \A i \in DOMAIN iterations :
      LET o == TaskObj(tasks[i])
          hits == SelectSeq(<<"priority", "importance", "severity">>,
                            LAMBDA f : FieldCode(o, f) # <<>>)
      IN  Pushed(i) =>
            /\ iterations[i].task.priority \in
                 {<<"P","1">>, <<"P","2">>, <<"P","3">>, <<"P","4">>}
            /\ iterations[i].task.priority =
                 IF hits = <<>> THEN <<"P","3">> ELSE FieldCode(o, Head(hits))

\* an unrecognized `priority` before a recognized `importance`
C13_Witness ==
  /\ ParsedResponse
  /\ \E i \in DOMAIN iterations :
       /\ Pushed(i)
       /\ Truthy(Get(TaskObj(tasks[i]), "priority"))
       /\ FieldCode(TaskObj(tasks[i]), "priority") = <<>>
       /\ FieldCode(TaskObj(tasks[i]), "importance") = <<"P","1">>
       /\ iterations[i].task.priority = <<"P","1">>

\* the field of the task object holds a value that is a valid date: a value
\* that is present (not null, false, 0 or "") and that new Date accepts
HoldsDate(o, f) ==
  /\ Truthy(Get(o, f))
  /\ ~StringThrows(Get(o, f))
  /\ NewDate(Get(o, f)).valid

\* C14: Due-date probing.  The dueDate of a pushed task is the ISO-8601 form
\* of the first value that is a valid date among the fields dueDate,
\* due_date, due, date, deadline, in that order, and the empty string if
\* none holds one; a value that is no valid date is skipped and never fails
\* the candidate: a candidate with a description string and date fields
\* only is always pushed.
C14_DueDateProbing ==
  ParsedResponse =>
    \A i \in DOMAIN iterations :
      LET o == TaskObj(tasks[i])
          hits == SelectSeq(<<"dueDate", "due_date", "due", "date", "deadline">>,
                            LAMBDA f : HoldsDate(o, f))
      IN  /\ Pushed(i) =>
               iterations[i].task.dueDate =
                 IF hits = <<>> THEN <<>> ELSE NewDate(Get(o, Head(hits))).iso
          /\ tasks[i] \in DueDateCandidates => Pushed(i)

\* an invalid due_date (a word, or an object that cannot be converted) and
\* a valid deadline: the deadline's date
C14_Witness ==
  /\ ParsedResponse
  /\ \E i \in DOMAIN iterations :
       /\ Pushed(i)
       /\ Get(tasks[i], "due_date").t = "object"
       /\ Get(tasks[i], "deadline") = JStr(sJune8)
       /\ iterations[i].task.dueDate =
            <<"2","0","2","4","-","0","6","-","0","8","T",
              "0","0",":","0","0",":","0","0",".","0","0","0","Z">>

\* the description of candidate i as resolved before the length clamp: the
\* cleaned description, or what follows the name and the connector when the
\* heuristic supplied the assignee
Resolved(i) ==
  LET c == iterations[i].cleaned
      m == assigneeMatch(c)
  IN  IF AssigneeField(TaskObj(tasks[i])).s = <<>> /\ m.ok
      THEN Str(trim(substringFrom(c, m.len))) ELSE c

\* C15: Length clamp.  A resolved description longer than 500 characters is
\* emitted as its first 497 characters followed by '...', 500 characters in
\* all; one of at most 500 characters is emitted as it is.
C15_LengthClamp ==
  ParsedResponse =>
    \A i \in DOMAIN iterations :
      LET r == Resolved(i)
          d == iterations[i].task.description
      IN  Pushed(i) =>
            /\ Len(r) > 500 =>
                 /\ Len(d) = 500
                 /\ \A j \in 1..497 : d[j] = r[j]
                 /\ \A j \in 498..500 : d[j] = "."
            /\ Len(r) <= 500 => d = r

\* a description of 600 characters, emitted with 500
C15_Witness ==
  /\ ParsedResponse
  /\ \E i \in DOMAIN iterations :
       /\ Pushed(i)
       /\ Len(Resolved(i)) = 600
       /\ Len(iterations[i].task.description) = 500

\* the raw description is longer than 500 characters and the resolved one,
\* after the removal of the name, exactly 500: not clamped
C15_WitnessBoundary ==
  /\ ParsedResponse
  /\ \E i \in DOMAIN iterations :
       /\ Pushed(i)
       /\ Len(iterations[i].cleaned) > 500
       /\ Len(Resolved(i)) = 500
       /\ iterations[i].task.description = Resolved(i)

\* the response is {"tasks":[{"description":X}]} for a string X
IsBaseline(v) ==
  /\ v.t = "object" /\ Len(v.o) = 1
  /\ v.o[1].k = "tasks" /\ v.o[1].v.t = "array" /\ Len(v.o[1].v.a) = 1
  /\ v.o[1].v.a[1].t = "object" /\ Len(v.o[1].v.a[1].o) = 1
  /\ v.o[1].v.a[1].o[1].k = "description"
  /\ v.o[1].v.a[1].o[1].v.t = "string"
BaselineX(v) == Str(v.o[1].v.a[1].o[1].v.s)
BaselineTask(x) ==
  [description |-> x, assignee |-> <<>>, dueDate |-> <<>>, priority |-> <<"P","3">>]

\* C16: Baseline resolution.  When the content is
\* {"tasks":[{"description":"X"}]}, exactly one ParsedTask is returned, with
\* description "X", assignee "", dueDate "" and priority "P3"; and so for
\* every string in the place of "X" that the description rules leave alone:
\* non-empty, of at most 500 characters, without surrounding whitespace,
\* without an enumeration prefix, and without a match of the assignee
\* expression.
C16_Baseline ==
  (/\ ParsedResponse /\ IsBaseline(result)
   /\ BaselineX(result) # <<>>
   /\ Len(BaselineX(result)) <= 500
   /\ ~IsSpace(BaselineX(result)[1])
   /\ ~IsSpace(BaselineX(result)[Len(BaselineX(result))])
   /\ ~HasNumbering(BaselineX(result))
   /\ ~assigneeMatch(BaselineX(result)).ok) =>
    /\ returned.ok
    /\ returned.tasks = <<BaselineTask(BaselineX(result))>>

\* {"tasks":[{"description":"X"}]}
C16_Witness ==
  /\ ParsedResponse /\ IsBaseline(result)
  /\ BaselineX(result) = <<"X">>
  /\ returned.ok
  /\ returned.tasks = <<BaselineTask(<<"X">>)>>

\* the outcome of an attempt whose timer settled the race
TimedOut ==
  [ok |-> FALSE, tasks |-> <<>>,
   message |-> <<"Failed to parse tasks from conversation: ", "OpenAI API timeout">>]
\* what createTask has decided so far
Decided ==
  <<pc, attempt, timeline, outcomes, lastError, parsedTasks, index, createdTasks,
    taskErrors, reply>>
\* the timer (the remote call) of attempt a settles in this step
TimerSettles(a) == a \in timers /\ a \notin timers'
RemoteSettles(a) == a \in inflight /\ a \notin inflight'

\* C17: Model invocation race.  When the timer of an attempt settles while
\* its remote call is still pending, the attempt fails with the timeout
\* error; when the remote call settles while the timer is still pending, the
\* attempt ends with an outcome that is not the timeout error.  The second
\* of the two to settle changes nothing: no outcome of an attempt is ever
\* rewritten, the later completion of the remote call after a timeout and
\* the later expiry of the timer after a completion leave every decision of
\* the request as it was, and a response once sent is never replaced.
C17_Race ==
  [][/\ \A a \in 0..maxRetries :
          /\ TimerSettles(a) =>
               IF a \in inflight
               THEN outcomes' = Append(outcomes, TimedOut)
               ELSE UNCHANGED Decided
          /\ RemoteSettles(a) =>
               IF a \in timers
               THEN /\ Len(outcomes') = Len(outcomes) + 1
                    /\ outcomes'[Len(outcomes')] # TimedOut
               ELSE UNCHANGED Decided
     /\ Len(outcomes') >= Len(outcomes)
     /\ \A i \in 1..Len(outcomes) : outcomes'[i] = outcomes[i]
     /\ reply # NoReply => reply' = reply]_vars

\* the first attempt timed out and its remote call completed later; the
\* second attempt was settled by the remote call and its timer expired
\* after the request was answered with 201
C17_Witness ==
  /\ Len(outcomes) = 2
  /\ outcomes[1] = TimedOut
  /\ settlements[1].by = "timeout"
  /\ 0 \notin inflight
  /\ settlements[2].by = "resolved"
  /\ AttemptSucceeded(2)
  /\ 1 \notin timers
  /\ pc = "done"
  /\ reply.status = 201

\* the completion of a settlement carries no content: no choice, a first
\* choice without content, or an empty content
WithoutContent(c) == c.choices = 0 \/ ~c.hasContent \/ c.content = <<>>
\* the stage at which the attempt of a settlement fails, "none" if it passes
\* the five stages
FailedStage(st) ==
  CASE st.by = "rejected" -> "RemoteInvocation"
    [] st.by = "timeout" -> "Timeout"
    [] OTHER ->
         IF WithoutContent(st.completion) THEN "EmptyResponse"
         ELSE IF ~JSONparse(st.completion.content).ok THEN "MalformedResponse"
         ELSE IF ExtractTasks(JSONparse(st.completion.content).v) = <<>>
              THEN "NoTasksExtracted"
         ELSE "none"
\* the message of each kind of error
KindMessage(kind, st) ==
  CASE kind = "RemoteInvocation" ->
         <<"OpenAI API error: ", IF st.error.isError THEN st.error.message
                                 ELSE "Unknown error">>
    [] kind = "Timeout" -> <<"OpenAI API timeout">>
    [] kind = "EmptyResponse" -> <<"No response from AI">>
    [] kind = "MalformedResponse" -> <<"Invalid JSON response from AI">>
    [] kind = "NoTasksExtracted" ->
         <<"No valid tasks could be extracted from the conversation">>
ErrorKinds ==
  {"RemoteInvocation", "Timeout", "EmptyResponse", "MalformedResponse",
   "NoTasksExtracted"}
\* the contents [] and {"tasks":[]}
EmptySequenceContents ==
  { <<Tok("["), Tok("]")>>,
    <<Tok("{"), KeyTok("tasks"), Tok(":"), Tok("["), Tok("]"), Tok("}")>> }

\* C18: Failure classification.  Every settled attempt has one outcome.  An
\* attempt whose remote call rejected, whose timer settled first, whose
\* completion has no content, whose content is not JSON, or whose JSON
\* yields an empty candidate sequence (as [] and {"tasks":[]} do) fails
\* with the error of the first of these stages that fails, carrying the
\* message of that kind and of no other kind, and returns no task list.
C18_FailureClassification ==
  /\ Len(outcomes) = Len(settlements)
  /\ \A i \in 1..Len(settlements) :
       LET st == settlements[i]
           kind == FailedStage(st)
       IN  /\ kind \in ErrorKinds =>
                /\ ~outcomes[i].ok
                /\ outcomes[i].tasks = <<>>
                /\ outcomes[i].message =
                     <<"Failed to parse tasks from conversation: ">> \o KindMessage(kind, st)
                /\ \A other \in ErrorKinds \ {kind} :
                     outcomes[i].message #
                       <<"Failed to parse tasks from conversation: ">>
                         \o KindMessage(other, st)
           /\ (/\ st.by = "resolved" /\ ~WithoutContent(st.completion)
               /\ st.completion.content \in EmptySequenceContents) =>
                kind = "NoTasksExtracted"

\* three attempts failing at three stages: a rejected call, a content that
\* is not JSON, the content {"tasks":[]}
C18_Witness ==
  /\ Len(outcomes) = 3
  /\ FailedStage(settlements[1]) = "RemoteInvocation"
  /\ FailedStage(settlements[2]) = "MalformedResponse"
  /\ FailedStage(settlements[3]) = "NoTasksExtracted"
  /\ settlements[3].completion.content \in EmptySequenceContents
  /\ pc = "done"
  /\ reply.status = 500
  /\ reply.message = <<"Failed to parse tasks from conversation: ",
                       "No valid tasks could be extracted from the conversation">>

\* an attempt that timed out and an attempt whose completion has no content
C18_WitnessEmpty ==
  /\ Len(outcomes) >= 2
  /\ FailedStage(settlements[1]) = "Timeout"
  /\ FailedStage(settlements[2]) = "EmptyResponse"

\* the calls of the remote model issued so far
Calls == {i \in 1..Len(timeline) : timeline[i].e = "call"}

\* C19: Input truncation.  Every call submits the text of the request: a
\* text of more than 3000 characters as its first 3000 characters followed
\* by '... [truncated]' (3015 characters in all), a text of at most 3000
\* characters whole and without the marker.  A request with a text, however
\* long, is not refused: its first step issues a call to the model and it
\* is never answered with 400.
C19_InputTruncation ==
  /\ \A i \in Calls :
       IF conversationLength > 3000
       THEN timeline[i].submitted = [kept |-> 3000, marker |-> TRUE, length |-> 3015]
       ELSE timeline[i].submitted =
              [kept |-> conversationLength, marker |-> FALSE,
               length |-> conversationLength]
  /\ (conversationLength > 0 /\ pc # "received") =>
       /\ 1 \in Calls
       /\ reply.status # 400

\* a text of 3001 characters, truncated in each of its two calls, and
\* answered with 201
C19_Witness ==
  /\ conversationLength = 3001
  /\ Calls = {1, 3}
  /\ timeline[3].submitted = [kept |-> 3000, marker |-> TRUE, length |-> 3015]
  /\ pc = "done"
  /\ reply.status = 201

\* a text of exactly 3000 characters, submitted whole
C19_WitnessAtBudget ==
  /\ conversationLength = 3000
  /\ 1 \in Calls
  /\ timeline[1].submitted = [kept |-> 3000, marker |-> FALSE, length |-> 3000]
  /\ pc = "done"
  /\ reply.status = 201

\* the weekday of a day (0 = Sunday); day 0 is Thursday 1 January 1970
Weekday(day) == (day + 4) % 7
\* the offsets of the seven weekdays, Sunday first
FridayOffsets == <<5, 4, 3, 2, 1, 7, 6>>

\* C20: Next-Friday anchor.  Once the anchors are computed, with d the
\* weekday of the current day, the Friday anchor lies (5 - d + 7) % 7 days
\* after today, 7 days when that is 0; the offset is in 1..7 (5, 4, 3, 2,
\* 1, 7, 6 for Sunday to Saturday), the anchor is a Friday, and on a Friday
\* it is the Friday of the week after.
C20_NextFriday ==
  anchors.set =>
    LET d == Weekday(now)
        offset == anchors.friday - anchors.today
    IN  /\ anchors.today = now
        /\ d \in 0..6
        /\ offset = (IF (5 - d + 7) % 7 = 0 THEN 7 ELSE (5 - d + 7) % 7)
        /\ offset \in 1..7
        /\ offset = FridayOffsets[d + 1]
        /\ Weekday(anchors.friday) = 5
        /\ (d = 5 => offset = 7)

\* the anchors computed on a Friday
C20_Witness ==
  /\ anchors.set
  /\ Weekday(now) = 5
  /\ anchors.friday = now + 7

\* the anchors computed on a Saturday and on a Thursday
C20_WitnessSaturday ==
  /\ anchors.set
  /\ Weekday(now) = 6
  /\ anchors.friday = now + 6
C20_WitnessThursday ==
  /\ anchors.set
  /\ Weekday(now) = 4
  /\ anchors.friday = now + 1

\* C21: Time-zone anchoring.  The anchors computed at an instant are the
\* calendar dates of Asia/Kolkata at that instant (today, the day after, and
\* the Friday that follows), and a server with any other local zone
\* computes the same anchors at the same instant.
C21_ZoneAnchoring ==
  anchors.set =>
    LET kolkata == (clock.instant + TIME_ZONE) \div 48
    IN  /\ anchors.today = kolkata
        /\ anchors.tomorrow = kolkata + 1
        /\ anchors.friday > kolkata
        /\ anchors.friday <= kolkata + 7
        /\ Weekday(anchors.friday) = 5
        /\ \A z \in ServerZones :
             DateAnchors(LocalDay(clock.instant, z)) = anchors

\* the messages with which an attempt fails in the explored requests: the
\* remote call rejected, the timer first, no content, content that is not
\* JSON, no candidate, no surviving candidate
FailureMessages ==
  { <<"OpenAI API error: ", "Connection error.">>,
    <<"OpenAI API error: ", "Unknown error">>,
    <<"OpenAI API timeout">>,
    <<"No response from AI">>,
    <<"Invalid JSON response from AI">>,
    <<"No valid tasks could be extracted from the conversation">>,
    <<"No valid tasks could be extracted after processing">> }
FailureOf(i) == SubSeq(outcomes[i].message, 2, Len(outcomes[i].message))
Sleeps == {j \in 1..Len(timeline) : timeline[j].e = "sleep"}

\* C22: Retry bound and trigger.  At most 3 attempts are made for a request
\* and the attempt counter stays in 0..2.  Every failed attempt but the
\* third, whatever its kind of failure, is followed at once by a sleep of
\* 1000 * 2^attempt ms (attempt counted from 0) and, when the sleep is
\* over, by the call of the next attempt.  A sleep is found only after a
\* failed attempt that is not the third, and a call other than the first
\* only after such a sleep.
C22_RetryBoundAndTrigger ==
  /\ Len(outcomes) <= 3
  /\ Cardinality(Calls) <= 3
  /\ attempt \in 0..2
  /\ \A i \in 1..Len(outcomes) :
       (AttemptFailed(i) /\ i < 3) =>
         /\ FailureOf(i) \in FailureMessages
         /\ Len(timeline) >= 2 * i
         /\ timeline[2 * i].e = "sleep"
         /\ timeline[2 * i].ms = 1000 * 2^(i - 1)
         /\ (pc # "sleep" \/ i < Len(outcomes)) =>
              /\ Len(timeline) >= 2 * i + 1
              /\ timeline[2 * i + 1].e = "call"
              /\ timeline[2 * i + 1].n = i
  /\ \A j \in Sleeps :
       /\ j % 2 = 0
       /\ j \div 2 \in 1..2
       /\ j \div 2 <= Len(outcomes)
       /\ AttemptFailed(j \div 2)
  /\ \A j \in Calls :
       j > 1 => (j - 1) \in Sleeps

\* a request whose first attempt found no surviving candidate and whose
\* second attempt found no candidate, retried after 1000 and 2000 ms
C22_Witness ==
  /\ Len(outcomes) >= 2
  /\ FailureOf(1) = <<"No valid tasks could be extracted after processing">>
  /\ FailureOf(2) = <<"No valid tasks could be extracted from the conversation">>
  /\ Len(timeline) = 5
  /\ timeline[2].ms = 1000
  /\ timeline[4].ms = 2000
  /\ timeline[5].e = "call"

\* every kind of failure is met by some first attempt that is retried
C22_WitnessTimeout ==
  /\ Len(outcomes) = 3
  /\ FailureOf(1) = <<"OpenAI API timeout">>
  /\ FailureOf(2) = <<"Invalid JSON response from AI">>
  /\ FailureOf(3) = <<"No response from AI">>
  /\ Len(timeline) = 5

\* the task that a candidate resolves to when it is the only candidate of
\* the batch, <<>> if it does not survive
Alone(task) ==
  LET it == ProcessTask(task) IN IF it.kind = "push" THEN <<it.task>> ELSE <<>>
\* the candidates that survive on their own
SurvivingCandidates == {i \in DOMAIN tasks : Alone(tasks[i]) # <<>>}
\* a sequence without its i-th element
Without(seq, i) == SubSeq(seq, 1, i - 1) \o SubSeq(seq, i + 1, Len(seq))
\* the tasks returned, <<>> when the function threw
ReturnedTasks == IF returned.ok THEN returned.tasks ELSE <<>>

\* C23: Order and independence of resolution.  For a response that yields
\* candidates, the tasks returned are those of the candidates that survive,
\* each as it resolves on its own, in the order of the candidates; there
\* are at most as many tasks as candidates; a candidate that is skipped or
\* whose iteration throws does not end the batch, the function throwing
\* only when no candidate survives; and the batch without any one candidate
\* resolves to the same tasks in the same order, less the task of that
\* candidate.
C23_OrderAndIndependence ==
  (ParsedResponse /\ Len(tasks) >= 1) =>
    /\ Len(ReturnedTasks) = Cardinality(SurvivingCandidates)
    /\ Len(ReturnedTasks) <= Len(tasks)
    /\ \A i \in SurvivingCandidates :
         ReturnedTasks[Cardinality({k \in SurvivingCandidates : k <= i})]
           = Alone(tasks[i])[1]
    /\ returned.ok <=> SurvivingCandidates # {}
    /\ \A i \in DOMAIN tasks :
         ProcessTasks(Without(tasks, i)) =
           IF i \in SurvivingCandidates
           THEN Without(ReturnedTasks, Cardinality({k \in SurvivingCandidates : k <= i}))
           ELSE ReturnedTasks

\* a candidate whose iteration throws, followed by one that is returned
C23_Witness ==
  /\ ParsedResponse
  /\ Len(tasks) = 2
  /\ iterations[1].kind = "throw"
  /\ iterations[2].kind = "push"
  /\ returned.ok
  /\ returned.tasks = <<iterations[2].task>>

\* two different tasks returned in the order of their candidates
C23_WitnessOrder ==
  /\ ParsedResponse
  /\ Len(tasks) = 2
  /\ returned.ok
  /\ Len(returned.tasks) = 2
  /\ returned.tasks[1] # returned.tasks[2]
  /\ returned.tasks = <<iterations[1].task, iterations[2].task>>

\* C24: Termination.  A request that has called the model is eventually
\* answered, with 201 or with 500, whether or not any remote completion
\* call ever settles; and it is answered once: a response that was sent is
\* never followed by another.
C24_Termination ==
  /\ (pc = "race") ~> (pc = "done" /\ reply.status \in {201, 500})
  /\ [][reply # NoReply => reply' = reply]_vars

\* three attempts ended by their timers while no remote call has settled,
\* answered with 500
C24_Witness ==
  /\ pc = "done"
  /\ inflight = {0, 1, 2}
  /\ Len(settlements) = 3
  /\ \A i \in 1..3 : settlements[i].by = "timeout"
  /\ reply.status = 500

\* C25: The date anchors are embedded in the prompt.  The messages of
\* every call of the model contain the today, tomorrow and next-Friday
\* dates computed for that call.
C25_AnchorsInPrompt ==
  \A i \in Calls :
    /\ anchors.set
    /\ {anchors.today, anchors.tomorrow, anchors.friday} \subseteq timeline[i].dates

\* the candidate is a mapping with a truthy `task` property
IsWrapper(task) == TypeOf(task) = "object" /\ Truthy(task) /\ Truthy(Get(task, "task"))
\* the wrapper has a field of its own beside `task`
HasOuterField(task) ==
  \E k \in {"description", "assignee", "dueDate", "priority"} :
    Get(task, k).t # "undefined"

\* C26: Nested-task unwrapping replaces the candidate.  A candidate with a
\* truthy `task` property resolves exactly as the wrapper {task: ...}
\* stripped of every other field does: the description, assignee, dueDate
\* and priority of the wrapper have no effect.  When the value of `task` is
\* a mapping and a task is emitted, its description is derived from the
\* description of that mapping, and its assignee (field or heuristic on that
\* description), due date and priority from the fields of that mapping.
C26_UnwrapReplacesCandidate ==
  ParsedResponse =>
    \A i \in DOMAIN tasks :
      IsWrapper(tasks[i]) =>
        LET inner == Get(tasks[i], "task")
            emitted == iterations[i].task
        IN  /\ iterations[i] = ProcessTask(JObj(<<Prop("task", inner)>>))
            /\ (Pushed(i) /\ TypeOf(inner) = "object") =>
                 /\ iterations[i].trimmed = Str(trim(String(Get(inner, "description"))))
                 /\ emitted.dueDate = DueDate(inner, dueDateFields)
                 /\ emitted.priority = Str(Priority(inner, priorityFields).p)
                 /\ Get(inner, "assignee").t = "string" /\ Get(inner, "assignee").s # <<>>
                      => emitted.assignee = Str(trim(Get(inner, "assignee").s))
                 /\ Get(tasks[i], "assignee").t = "string"
                    /\ Get(inner, "assignee").t = "undefined"
                    /\ ~assigneeMatch(iterations[i].cleaned).ok
                      => emitted.assignee = <<>>

\* a wrapper with a description, an assignee, a due date and a priority of
\* its own around a task with other values of the four
C26_Witness ==
  /\ ParsedResponse
  /\ Len(tasks) = 1
  /\ IsWrapper(tasks[1])
  /\ \A k \in {"description", "assignee", "dueDate", "priority"} :
       Get(tasks[1], k).t = "string"
  /\ Get(Get(tasks[1], "task"), "priority").t = "string"
  /\ returned.ok
  /\ returned.tasks[1].description = <<"F","i","x">>
  /\ returned.tasks[1].assignee = <<"B","o","b">>
  /\ returned.tasks[1].priority = <<"P","4">>
  /\ returned.tasks[1].dueDate # <<>>

\* a wrapper with an assignee around a task without one: no assignee
C26_WitnessNoAssignee ==
  /\ ParsedResponse
  /\ Len(tasks) = 1
  /\ IsWrapper(tasks[1])
  /\ HasOuterField(tasks[1])
  /\ Get(tasks[1], "assignee").t = "string"
  /\ returned.ok
  /\ returned.tasks[1].assignee = <<>>
  /\ returned.tasks[1].priority = <<"P","3">>

\* the extraction of the request has succeeded
Extracted == Len(outcomes) >= 1 /\ AttemptSucceeded(Len(outcomes))
\* the indices recorded as failed, as a set
FailedIndices == {taskErrors[j] : j \in DOMAIN taskErrors}

\* C27: Persistence accounting.  After a successful extraction of n parsed
\* tasks, the tasks handled so far are each counted once, as created or as
\* failed (no index is recorded twice as failed, and the created tasks are
\* the parsed tasks that were not, in order of their indices).  A 201
\* response reports created + failed = total = n with created >= 1; a
\* request none of whose tasks could be stored ends with the 500 "Failed to
\* create tasks"; and 201 is sent in no other case.
C27_PersistenceAccounting ==
  /\ Extracted =>
       /\ parsedTasks = outcomes[Len(outcomes)].tasks
       /\ index <= Len(parsedTasks)
       /\ Len(createdTasks) + Len(taskErrors) = index
       /\ Cardinality(FailedIndices) = Len(taskErrors)
       /\ FailedIndices \subseteq 0..(index - 1)
       /\ \A j \in DOMAIN createdTasks : \E i \in 1..index :
            /\ (i - 1) \notin FailedIndices
            /\ createdTasks[j] = parsedTasks[i]
            /\ j = Cardinality({k \in 1..i : (k - 1) \notin FailedIndices})
       /\ pc = "done" =>
            /\ index = Len(parsedTasks)
            /\ IF Len(createdTasks) >= 1
               THEN /\ reply.status = 201
                    /\ reply.created = Len(createdTasks)
                    /\ reply.failed = Len(taskErrors)
                    /\ reply.total = Len(parsedTasks)
                    /\ reply.created + reply.failed = reply.total
               ELSE /\ reply.status = 500
                    /\ reply.error = "Failed to create tasks"
                    /\ reply.message = <<"No tasks were created successfully">>
  /\ reply.status = 201 => (Extracted /\ reply.created >= 1)

\* two parsed tasks, one stored and one not: 201 with 1 + 1 = 2
C27_Witness ==
  /\ Extracted
  /\ pc = "done"
  /\ reply.status = 201
  /\ reply.total = 2
  /\ reply.created = 1
  /\ reply.failed = 1

\* parsed tasks none of which was stored: 500
C27_WitnessNoneStored ==
  /\ Extracted
  /\ pc = "done"
  /\ Len(parsedTasks) >= 1
  /\ createdTasks = <<>>
  /\ reply.status = 500

====
